---- MODULE Spec2Model ----
(***************************************************************************)
(* ScriptRunner (src/services/script_runner.py): the runner object, the    *)
(* foreground thread that calls its public methods, the worker threads it  *)
(* spawns and the child processes they supervise.                          *)
(*                                                                         *)
(* Granularity: one step of a thread is one source line (one attribute    *)
(* read or write of the shared runner object).  The foreground thread is   *)
(* a single thread: it is inside at most one method call at a time, and    *)
(* when it is idle it may call any public method with any argument.        *)
(* Timeouts (Thread.join(timeout), communicate(timeout)) carry no clock:   *)
(* a timed wait may give up whenever the awaited event has not happened.   *)
(***************************************************************************)
EXTENDS Integers, Sequences, FiniteSets, TLC

\* Python's None and a present value.
None == <<>>
Some(x) == <<x>>

\* class LogLevel
DEBUG == "debug"
INFO == "info"
SUCCESS == "success"
WARNING == "warning"
ERROR == "error"
SYSTEM == "system"

----------------------------------------------------------------------------
\* Bounds of the model.

\* The worker threads that can be alive at the same time: the thread of a
\* later start() begins when the one before it has ended.
Workers == {1}

\* Capacity of the output queue between two drains (queue.Queue() itself is
\* unbounded): a put waits while the queue holds MaxQueue messages.
MaxQueue == 1

\* The simulation's operations list, debug details and batch loop, scaled
\* down (the source has 8 operations, the batch loop at index 5, 5 batches
\* and 3 or 4 debug lines per operation).
NumOperations == 3
BatchIndex == 1
NumBatches == 1
NumDebug == 1

----------------------------------------------------------------------------
\* Inputs.

\* The calls of start(script_path, args, developer_mode) a caller makes: the
\* simulation, a script that exists, a path that does not exist.  An args
\* list is Some(list); args=None is None.
StartCalls == {<<None, None, FALSE>>,
               <<Some("a.py"), Some(<<"x">>), TRUE>>,
               <<Some("missing.py"), None, FALSE>>}
ExistingPaths == {"a.py"}

\* Popen.returncode values: the reserved pause code of line 267, the codes
\* of a process ended by terminate() / kill(), and ordinary exits.
PauseCode == -99
TermCode == -15
KillCode == -9

\* scripts/divvy_me_transaction_upload.py, line 459: what main() returns
\* when it has opened the file for review, and the process exit status
\* sys.exit() of line 531 makes of it (its low byte).
ReviewReturn == 99
sys_exit(exit_code) == exit_code % 256
ReviewExit == sys_exit(ReviewReturn)

\* Line 526 of the script: the state is pickled for the resume only when
\* main() returned -99.
SavesState(exit_code) == exit_code = -99

ChildExitCodes == {0, 1, PauseCode, ReviewExit}

\* os.path.exists(script_path) of line 68.
PathExists(p) == p \in ExistingPaths

\* The exit code stop() records for a user-terminated run (line 102).
StopExitCode == -1

----------------------------------------------------------------------------
VARIABLES
    \* ScriptRunner.__init__
    is_running, current_thread, current_process, output_queue,
    stop_requested, developer_mode, last_exit_code, script_succeeded,
    is_paused, pause_state, paused_script_path, paused_script_args,
    \* the worker threads: position and arguments of _run_script / _run_simulation
    thread,
    \* the child processes, one per worker slot
    proc,
    \* the foreground thread: the method it is in, its position and arguments
    fg,
    \* how the last finished foreground call ended: "none" when it returned,
    \* the exception when it raised one, "stop: not running" when stop()
    \* returned from its test of line 86
    outcome,
    \* history: the last accepted start() has been followed by a stop() that
    \* found is_running true and has returned
    stopped,
    \* ProcessPage and its OutputManager: the position of the UI thread in the
    \* handler it runs, the 'script_running' state key, _check_scheduled, the
    \* pending after() callbacks, the buttons, the list get_all_output fills
    page,
    \* history of the output: the number of messages workers have enqueued,
    \* the serial numbers of the messages in output_queue and in the list
    \* being drained, and the serial numbers the output callback has received
    out,
    \* EventBus.__init__: event name -> list of callbacks
    _subscribers,
    \* StateManager.__init__: the state, its previous snapshot, and
    \* state key -> list of observers
    _state, _previous_state, _observers,
    \* the files save_to_file has written, by path
    disk,
    \* history: the last call made on the EventBus or the StateManager, its
    \* arguments, what it returned, the callbacks and publish() calls it
    \* made, in order, and whether it repeats the call before it
    last

runner == <<is_running, current_thread, current_process, output_queue,
            stop_requested, developer_mode, last_exit_code, script_succeeded,
            is_paused, pause_state, paused_script_path, paused_script_args>>

\* The fields the status getters expose, without the output queue.
status == <<is_running, current_thread, current_process,
            stop_requested, developer_mode, last_exit_code, script_succeeded,
            is_paused, pause_state, paused_script_path, paused_script_args>>

runnervars == <<runner, thread, proc, fg, outcome, stopped>>
pagevars == <<page, out>>
statevars == <<_subscribers, _state, _previous_state, _observers, disk, last>>

vars == <<runnervars, pagevars, statevars>>

\* A thread: its position, the arguments of its target, the loop counters of
\* the simulation, and two history fields: the branch of lines 267-289 it
\* took ("pause", "done", "error") and whether stop() has been called since
\* it was created.
DeadThread == [pc |-> "dead", script_path |-> None, args |-> None,
               resume |-> FALSE, i |-> 0, j |-> 0, k |-> 0,
               branch |-> "", stop_called |-> FALSE]
NoProc == [state |-> "none", code |-> 0, returncode |-> None]
FgIdle == [pc |-> "idle", script_path |-> None, args |-> None,
           developer_mode |-> FALSE, resume |-> FALSE]

\* ControlPanel.create_buttons: Run shown, Continue hidden, Stop disabled.
PanelIdle == [run |-> TRUE, continue |-> FALSE, stop |-> FALSE]

\* ProcessPage.__init__ / OutputManager.__init__: no handler running, the
\* 'script_running' key False, no monitoring, no callback pending.
\* The 'status' key is 'idle' (state_manager.py line 25).  ev counts the
\* lifecycle events published since the last run_script() that went ahead,
\* run_open tells that HistoryManager._current_run holds the script, and
\* record is the status of the history record written since then.
NoEvents == [started |-> 0, completed |-> 0, stopped |-> 0, error |-> 0,
             paused |-> 0, resumed |-> 0]
PageInit == [pc |-> "idle", ret |-> "idle", script_running |-> FALSE,
             check_scheduled |-> FALSE, polls |-> 0, checks |-> 0,
             panel |-> PanelIdle, messages |-> <<>>,
             status |-> "idle", ev |-> NoEvents, run_open |-> FALSE,
             record |-> ""]

\* Python values are written as their repr: None, 'dark', 'light'.
PyNone == "None"

\* An empty dict.
EmptyDict == [k \in {} |-> PyNone]

\* StateManager.__init__, lines 19-29: of the nine default keys the model
\* keeps one with a string default and one with a None default, in the
\* order of the constructor.
DefaultKeys == <<"theme", "script_path">>
DefaultState == [k \in {"theme", "script_path"} |->
                    IF k = "theme" THEN "'dark'" ELSE PyNone]

\* No call has been made on the EventBus or the StateManager yet.
NoCall == [op |-> "", args |-> EmptyDict, ret |-> PyNone, log |-> <<>>,
           again |-> FALSE]

\* Thread.is_alive()
Alive(w) == thread[w].pc # "dead"

\* ScriptRunner.is_alive (property)
is_alive == current_thread # None /\ Alive(current_thread[1])

\* ScriptRunner.is_script_paused / get_last_exit_code / did_script_succeed
is_script_paused == is_paused
get_last_exit_code == last_exit_code
did_script_succeed == script_succeeded

Init ==
    /\ is_running = FALSE
    /\ current_thread = None
    /\ current_process = None
    /\ output_queue = <<>>
    /\ stop_requested = FALSE
    /\ developer_mode = FALSE
    /\ last_exit_code = None
    /\ script_succeeded = None
    /\ is_paused = FALSE
    /\ pause_state = None
    /\ paused_script_path = None
    /\ paused_script_args = None
    /\ thread = [w \in Workers |-> DeadThread]
    /\ proc = [w \in Workers |-> NoProc]
    /\ fg = FgIdle
    /\ outcome = "none"
    /\ stopped = FALSE
    /\ page = PageInit
    /\ out = [sent |-> 0, qid |-> <<>>, bid |-> <<>>, shown |-> <<>>]
    /\ _subscribers = EmptyDict
    /\ _state = DefaultState
    /\ _previous_state = DefaultState
    /\ _observers = EmptyDict
    /\ disk = EmptyDict
    /\ last = NoCall

----------------------------------------------------------------------------
\* Helpers.

\* `args or []`
OrEmpty(a) == IF a = None \/ a = Some(<<>>) THEN Some(<<>>) ELSE a

\* Truthiness of a path (`if script_path`, `not self.paused_script_path`).
Truthy(p) == p # None /\ p # Some("")

\* The slot a new thread takes.
FreeSlots == {w \in Workers : ~Alive(w)}
NewSlot == CHOOSE w \in FreeSlots : \A v \in FreeSlots : w <= v

\* self.output_queue.put((msg_type, message)), line 409.
_add_output(msg_type, message) ==
    /\ Len(output_queue) < MaxQueue
    /\ output_queue' = Append(output_queue, <<msg_type, message>>)

\* Popen.poll(): the return code is recorded once the process has ended.
Polled(p) == IF proc[p].state = "exited"
             THEN [proc EXCEPT ![p].returncode = Some(proc[p].code)]
             ELSE proc

\* The end of a foreground call.
Return == fg' = FgIdle /\ outcome' = "none"
Raise(e) == fg' = FgIdle /\ outcome' = e
\* A return that outcome tells apart from the others.
ReturnAs(r) == fg' = FgIdle /\ outcome' = r
Goto(pc) == fg' = [fg EXCEPT !.pc = pc]

----------------------------------------------------------------------------
\* The foreground thread: ScriptRunner.start, lines 40-82.

CallStart(p, a, d) ==
    /\ fg.pc = "idle"
    /\ fg' = [pc |-> "start50", script_path |-> p, args |-> a,
              developer_mode |-> d, resume |-> FALSE]
    /\ UNCHANGED <<runner, thread, proc, outcome, stopped>>

\* Line 50 without its test.
StartRejects_Never == FALSE

\* Line 50: the condition under which start() raises RuntimeError.
StartRejects == is_running

\* Lines 50-53.
Start50 ==
    /\ fg.pc = "start50"
    /\ IF StartRejects
       THEN /\ Raise("RuntimeError: Script is already running")
            /\ UNCHANGED <<runner, stopped>>
       ELSE /\ is_running' = TRUE
            /\ Goto("start54")
            /\ stopped' = FALSE
            /\ UNCHANGED <<current_thread, current_process, output_queue,
                           stop_requested, developer_mode, last_exit_code,
                           script_succeeded, is_paused, pause_state,
                           paused_script_path, paused_script_args, outcome>>
    /\ UNCHANGED <<thread, proc>>

\* Lines 54-55.
Start54 ==
    /\ fg.pc = "start54"
    /\ stop_requested' = FALSE
    /\ developer_mode' = fg.developer_mode
    /\ Goto("start56")
    /\ UNCHANGED <<is_running, current_thread, current_process, output_queue,
                   last_exit_code, script_succeeded, is_paused, pause_state,
                   paused_script_path, paused_script_args,
                   thread, proc, outcome, stopped>>

\* Lines 56-59.
Start56 ==
    /\ fg.pc = "start56"
    /\ is_paused' = FALSE
    /\ Goto(IF fg.resume THEN "start65" ELSE "start60")
    /\ UNCHANGED <<is_running, current_thread, current_process, output_queue,
                   stop_requested, developer_mode, last_exit_code,
                   script_succeeded, pause_state,
                   paused_script_path, paused_script_args,
                   thread, proc, outcome, stopped>>

\* Line 60.
Start60 ==
    /\ fg.pc = "start60"
    /\ last_exit_code' = None
    /\ Goto("start61")
    /\ UNCHANGED <<is_running, current_thread, current_process, output_queue,
                   stop_requested, developer_mode, script_succeeded, is_paused,
                   pause_state, paused_script_path, paused_script_args,
                   thread, proc, outcome, stopped>>

\* Line 61.
Start61 ==
    /\ fg.pc = "start61"
    /\ script_succeeded' = None
    /\ Goto("start62")
    /\ UNCHANGED <<is_running, current_thread, current_process, output_queue,
                   stop_requested, developer_mode, last_exit_code, is_paused,
                   pause_state, paused_script_path, paused_script_args,
                   thread, proc, outcome, stopped>>

\* Line 62.
Start62 ==
    /\ fg.pc = "start62"
    /\ pause_state' = None
    /\ Goto("start65")
    /\ UNCHANGED <<is_running, current_thread, current_process, output_queue,
                   stop_requested, developer_mode, last_exit_code,
                   script_succeeded, is_paused,
                   paused_script_path, paused_script_args,
                   thread, proc, outcome, stopped>>

\* Line 68 without os.path.exists.
RunsScript_AnyPath(p) == Truthy(p)

\* Line 68: a script is run when a path is given and exists; anything else
\* runs the simulation.
RunsScript(p) == Truthy(p) /\ PathExists(p[1])

\* Lines 65-82: the script is kept for resume() and the worker thread is
\* created and started.
Start65 ==
    /\ fg.pc = "start65"
    /\ FreeSlots # {}
    /\ paused_script_path' = fg.script_path
    /\ paused_script_args' = OrEmpty(fg.args)
    /\ current_thread' = Some(NewSlot)
    /\ thread' = [thread EXCEPT ![NewSlot] =
                    [DeadThread EXCEPT
                       !.pc = IF RunsScript(fg.script_path) THEN "run208" ELSE "sim354",
                       !.script_path = IF RunsScript(fg.script_path)
                                       THEN fg.script_path ELSE None,
                       !.args = IF RunsScript(fg.script_path)
                                THEN OrEmpty(fg.args) ELSE None,
                       !.resume = RunsScript(fg.script_path) /\ fg.resume]]
    /\ Return
    /\ UNCHANGED <<is_running, current_process, output_queue,
                   stop_requested, developer_mode, last_exit_code,
                   script_succeeded, is_paused, pause_state, proc, stopped>>

\* Line 112 without its test.
ResumeRejects_Never == FALSE

\* ScriptRunner.resume, lines 110-121.
ResumeRejects == ~is_paused \/ ~Truthy(paused_script_path)

CallResume ==
    /\ fg.pc = "idle"
    /\ Goto("resume112")
    /\ UNCHANGED <<runner, thread, proc, outcome, stopped>>

\* Lines 112-121.
Resume112 ==
    /\ fg.pc = "resume112"
    /\ IF ResumeRejects
       THEN Raise("RuntimeError: No script is paused")
       ELSE /\ fg' = [pc |-> "start50", script_path |-> paused_script_path,
                      args |-> paused_script_args,
                      developer_mode |-> developer_mode, resume |-> TRUE]
            /\ UNCHANGED outcome
    /\ UNCHANGED <<runner, thread, proc, stopped>>

----------------------------------------------------------------------------
\* The foreground thread: ScriptRunner.stop, lines 84-108.

\* Line 86 without its test.
StopActs_Always == TRUE

\* Line 86: the condition under which stop() does anything at all.
StopActs == is_running

CallStop ==
    /\ fg.pc = "idle"
    /\ Goto("stop86")
    /\ thread' = [w \in Workers |->
                    IF Alive(w) THEN [thread[w] EXCEPT !.stop_called = TRUE]
                                ELSE thread[w]]
    /\ UNCHANGED <<runner, proc, outcome, stopped>>

\* Line 86.
Stop86 ==
    /\ fg.pc = "stop86"
    /\ IF StopActs
       THEN Goto("stop87") /\ UNCHANGED outcome
       ELSE ReturnAs("stop: not running")
    /\ UNCHANGED <<runner, thread, proc, stopped>>

\* Line 87.
Stop87 ==
    /\ fg.pc = "stop87"
    /\ stop_requested' = TRUE
    /\ Goto("stop90")
    /\ UNCHANGED <<is_running, current_thread, current_process, output_queue,
                   developer_mode, last_exit_code, script_succeeded, is_paused,
                   pause_state, paused_script_path, paused_script_args,
                   thread, proc, outcome, stopped>>

\* Line 90, left operand: `self.current_process and ...`.
Stop90 ==
    /\ fg.pc = "stop90"
    /\ Goto(IF current_process = None THEN "stop102" ELSE "stop90poll")
    /\ UNCHANGED <<runner, thread, proc, outcome, stopped>>

\* Line 90, right operand: `self.current_process.poll() is None` reads the
\* attribute again; on None the AttributeError leaves stop() (the line is
\* outside the try).
Stop90Poll ==
    /\ fg.pc = "stop90poll"
    /\ IF current_process = None
       THEN /\ Raise("AttributeError: 'NoneType' object has no attribute 'poll'")
            /\ UNCHANGED proc
       ELSE /\ proc' = Polled(current_process[1])
            /\ Goto(IF proc[current_process[1]].state = "exited"
                    THEN "stop102" ELSE "stop92")
            /\ UNCHANGED outcome
    /\ UNCHANGED <<runner, thread, stopped>>

\* Line 92, terminate(): the process ends with TermCode, or has not ended
\* yet when stop() looks again after the 0.5 s of line 94.
Stop92 ==
    /\ fg.pc = "stop92"
    /\ IF current_process = None
       THEN Goto("stop99") /\ UNCHANGED proc
       ELSE /\ Goto("stop96")
            /\ \/ UNCHANGED proc
               \/ /\ proc[current_process[1]].state = "running"
                  /\ proc' = [proc EXCEPT ![current_process[1]].state = "exited",
                                          ![current_process[1]].code = TermCode]
    /\ UNCHANGED <<runner, thread, outcome, stopped>>

\* Line 96.
Stop96 ==
    /\ fg.pc = "stop96"
    /\ IF current_process = None
       THEN Goto("stop99") /\ UNCHANGED proc
       ELSE /\ proc' = Polled(current_process[1])
            /\ Goto(IF proc[current_process[1]].state = "exited"
                    THEN "stop102" ELSE "stop97")
    /\ UNCHANGED <<runner, thread, outcome, stopped>>

\* Line 97, kill().
Stop97 ==
    /\ fg.pc = "stop97"
    /\ IF current_process = None
       THEN Goto("stop99") /\ UNCHANGED proc
       ELSE /\ Goto("stop102")
            /\ proc' = IF proc[current_process[1]].state = "running"
                       THEN [proc EXCEPT ![current_process[1]].state = "exited",
                                         ![current_process[1]].code = KillCode]
                       ELSE proc
    /\ UNCHANGED <<runner, thread, outcome, stopped>>

\* Lines 98-99.
Stop99 ==
    /\ fg.pc = "stop99"
    /\ _add_output(ERROR, "Error stopping process")
    /\ Goto("stop102")
    /\ UNCHANGED <<status, thread, proc, outcome, stopped>>

\* Line 102.
Stop102 ==
    /\ fg.pc = "stop102"
    /\ last_exit_code' = Some(StopExitCode)
    /\ Goto("stop103")
    /\ UNCHANGED <<is_running, current_thread, current_process, output_queue,
                   stop_requested, developer_mode, script_succeeded, is_paused,
                   pause_state, paused_script_path, paused_script_args,
                   thread, proc, outcome, stopped>>

\* Line 103.
Stop103 ==
    /\ fg.pc = "stop103"
    /\ script_succeeded' = Some(FALSE)
    /\ Goto("stop104")
    /\ UNCHANGED <<is_running, current_thread, current_process, output_queue,
                   stop_requested, developer_mode, last_exit_code, is_paused,
                   pause_state, paused_script_path, paused_script_args,
                   thread, proc, outcome, stopped>>

\* Line 104.
Stop104 ==
    /\ fg.pc = "stop104"
    /\ is_running' = FALSE
    /\ Goto("stop107")
    /\ UNCHANGED <<current_thread, current_process, output_queue,
                   stop_requested, developer_mode, last_exit_code,
                   script_succeeded, is_paused,
                   pause_state, paused_script_path, paused_script_args,
                   thread, proc, outcome, stopped>>

\* Lines 107-108: join(timeout=2.0) returns when the worker has finished or
\* when the timeout is over, the worker then being still alive.
Stop107 ==
    /\ fg.pc = "stop107"
    /\ Return
    /\ stopped' = TRUE
    /\ UNCHANGED <<runner, thread, proc>>

----------------------------------------------------------------------------
\* The foreground thread: the other public methods.

\* get_output, lines 123-132 (on an empty queue it returns None and changes
\* nothing).
GetOutput ==
    /\ fg.pc = "idle"
    /\ output_queue # <<>>
    /\ output_queue' = Tail(output_queue)
    /\ UNCHANGED <<status, thread, proc, fg, outcome, stopped>>

\* clear_output_queue, lines 148-154: the loop ends at the first moment at
\* which it finds the queue empty, all earlier messages removed.
ClearOutputQueue ==
    /\ fg.pc = "idle"
    /\ output_queue # <<>>
    /\ output_queue' = <<>>
    /\ UNCHANGED <<status, thread, proc, fg, outcome, stopped>>

----------------------------------------------------------------------------
\* A worker thread in _run_script, lines 204-292.

WGoto(w, pc) == thread' = [thread EXCEPT ![w].pc = pc]
\* An exception nothing catches: the thread ends where it is.
WRaise_Uncaught(w) == thread' = [thread EXCEPT ![w] = DeadThread]

\* An exception inside the try of lines 206-283: on to line 285.
WRaise(w) == thread' = [thread EXCEPT ![w].pc = "run286", ![w].branch = "error"]
At(w, pc) == thread[w].pc = pc

\* The levels _parse_log_level gives the lines of a child (lines 176-202).
LineLevels == {INFO, ERROR}

\* Line 267: the return code that means "paused for review".
IsPauseCode(rc) == rc = Some(PauseCode)

\* Line 273: the state file beside the script.
StateFile(path) == Some(<<path[1], ".divvy_state.pkl">>)

\* Lines 208-211.
Run208(w) ==
    /\ At(w, "run208")
    /\ _add_output(SYSTEM, IF thread[w].resume THEN "Resuming script"
                                               ELSE "Executing script")
    /\ WGoto(w, "run221")
    /\ UNCHANGED <<status, proc, fg, outcome, stopped>>

\* Lines 214-228: Popen starts the child, or raises (OSError).
Run221(w) ==
    /\ At(w, "run221")
    /\ \/ /\ proc' = [proc EXCEPT ![w] = [state |-> "running", code |-> 0,
                                          returncode |-> None]]
          /\ current_process' = Some(w)
          /\ WGoto(w, "run232")
       \/ /\ WRaise(w)
          /\ UNCHANGED <<proc, current_process>>
    /\ UNCHANGED <<is_running, current_thread, output_queue, stop_requested,
                   developer_mode, last_exit_code, script_succeeded, is_paused,
                   pause_state, paused_script_path, paused_script_args,
                   fg, outcome, stopped>>

\* Lines 232-233.
Run232(w) ==
    /\ At(w, "run232")
    /\ WGoto(w, IF stop_requested THEN "run248" ELSE "run236")
    /\ UNCHANGED <<runner, proc, fg, outcome, stopped>>

\* Lines 236-237 (self.current_process being None raises AttributeError).
Run236(w) ==
    /\ At(w, "run236")
    /\ IF current_process = None
       THEN WRaise(w) /\ UNCHANGED proc
       ELSE /\ proc' = Polled(current_process[1])
            /\ WGoto(w, IF proc[current_process[1]].state = "exited"
                        THEN "run248" ELSE "run240")
    /\ UNCHANGED <<runner, fg, outcome, stopped>>

\* Lines 240-245: readline() returns a line the child wrote, returns '' at
\* the end of the child's output, or raises.
Run240(w) ==
    /\ At(w, "run240")
    /\ IF current_process = None
       THEN WRaise(w) /\ UNCHANGED output_queue
       ELSE \/ /\ proc[current_process[1]].state = "running"
               /\ \E level \in LineLevels : _add_output(level, "line")
               /\ WGoto(w, "run232")
            \/ /\ proc[current_process[1]].state = "exited"
               /\ WGoto(w, "run232")
               /\ UNCHANGED output_queue
            \/ /\ WRaise(w)
               /\ UNCHANGED output_queue
    /\ UNCHANGED <<status, proc, fg, outcome, stopped>>

\* Line 248: communicate(timeout=1) returns once the child has ended and
\* raises TimeoutExpired while it has not.
Run248(w) ==
    /\ At(w, "run248")
    /\ IF current_process = None
       THEN WRaise(w) /\ UNCHANGED proc
       ELSE /\ proc' = Polled(current_process[1])
            /\ IF proc[current_process[1]].state = "exited"
               THEN WGoto(w, "run251") ELSE WRaise(w)
    /\ UNCHANGED <<runner, fg, outcome, stopped>>

\* Lines 251-255: the rest of stdout, if any.
Run251(w) ==
    /\ At(w, "run251")
    /\ \/ \E level \in LineLevels : _add_output(level, "line")
       \/ UNCHANGED output_queue
    /\ WGoto(w, "run258")
    /\ UNCHANGED <<status, proc, fg, outcome, stopped>>

\* Lines 258-261: stderr, if any, at ERROR level.
Run258(w) ==
    /\ At(w, "run258")
    /\ \/ _add_output(ERROR, "stderr")
       \/ UNCHANGED output_queue
    /\ WGoto(w, "run264")
    /\ UNCHANGED <<status, proc, fg, outcome, stopped>>

\* Line 264.
Run264(w) ==
    /\ At(w, "run264")
    /\ IF current_process = None
       THEN WRaise(w) /\ UNCHANGED last_exit_code
       ELSE /\ last_exit_code' = proc[current_process[1]].returncode
            /\ WGoto(w, "run267")
    /\ UNCHANGED <<is_running, current_thread, current_process, output_queue,
                   stop_requested, developer_mode, script_succeeded, is_paused,
                   pause_state, paused_script_path, paused_script_args,
                   proc, fg, outcome, stopped>>

\* Line 267.
Run267(w) ==
    /\ At(w, "run267")
    /\ IF current_process = None
       THEN WRaise(w)
       ELSE IF IsPauseCode(proc[current_process[1]].returncode)
            THEN thread' = [thread EXCEPT ![w].pc = "run268", ![w].branch = "pause"]
            ELSE thread' = [thread EXCEPT ![w].pc = "run277", ![w].branch = "done"]
    /\ UNCHANGED <<runner, proc, fg, outcome, stopped>>

\* Line 268.
Run268(w) ==
    /\ At(w, "run268")
    /\ is_paused' = TRUE
    /\ WGoto(w, "run269")
    /\ UNCHANGED <<is_running, current_thread, current_process, output_queue,
                   stop_requested, developer_mode, last_exit_code,
                   script_succeeded, pause_state, paused_script_path,
                   paused_script_args, proc, fg, outcome, stopped>>

\* Line 269.
Run269(w) ==
    /\ At(w, "run269")
    /\ script_succeeded' = None
    /\ WGoto(w, "run270")
    /\ UNCHANGED <<is_running, current_thread, current_process, output_queue,
                   stop_requested, developer_mode, last_exit_code, is_paused,
                   pause_state, paused_script_path, paused_script_args,
                   proc, fg, outcome, stopped>>

\* Line 270.
Run270(w) ==
    /\ At(w, "run270")
    /\ _add_output(SYSTEM, "Script paused for user review")
    /\ WGoto(w, "run273")
    /\ UNCHANGED <<status, proc, fg, outcome, stopped>>

\* Lines 273-275: the state file exists or does not.
Run273(w) ==
    /\ At(w, "run273")
    /\ \/ pause_state' = StateFile(thread[w].script_path)
       \/ UNCHANGED pause_state
    /\ WGoto(w, "run291")
    /\ UNCHANGED <<is_running, current_thread, current_process, output_queue,
                   stop_requested, developer_mode, last_exit_code,
                   script_succeeded, is_paused, paused_script_path,
                   paused_script_args, proc, fg, outcome, stopped>>

\* Line 277.
Run277(w) ==
    /\ At(w, "run277")
    /\ is_paused' = FALSE
    /\ WGoto(w, "run278")
    /\ UNCHANGED <<is_running, current_thread, current_process, output_queue,
                   stop_requested, developer_mode, last_exit_code,
                   script_succeeded, pause_state, paused_script_path,
                   paused_script_args, proc, fg, outcome, stopped>>

\* Line 278.
Run278(w) ==
    /\ At(w, "run278")
    /\ IF current_process = None
       THEN WRaise(w) /\ UNCHANGED script_succeeded
       ELSE /\ script_succeeded' =
                   Some(proc[current_process[1]].returncode = Some(0))
            /\ WGoto(w, "run280")
    /\ UNCHANGED <<is_running, current_thread, current_process, output_queue,
                   stop_requested, developer_mode, last_exit_code, is_paused,
                   pause_state, paused_script_path, paused_script_args,
                   proc, fg, outcome, stopped>>

\* Lines 280-283.
Run280(w) ==
    /\ At(w, "run280")
    /\ IF current_process = None
       THEN WRaise(w) /\ UNCHANGED output_queue
       ELSE /\ IF proc[current_process[1]].returncode = Some(0)
               THEN _add_output(SYSTEM, "Script completed successfully")
               ELSE _add_output(ERROR, "Script exited with code")
            /\ WGoto(w, "run291")
    /\ UNCHANGED <<status, proc, fg, outcome, stopped>>

\* Lines 285-286.
Run286(w) ==
    /\ At(w, "run286")
    /\ _add_output(ERROR, "Error running script")
    /\ WGoto(w, "run287")
    /\ UNCHANGED <<status, proc, fg, outcome, stopped>>

\* The exit code and the success flag the except branch records
\* (lines 287-288).
ErrorExitCode == 1

\* Line 287.
Run287(w) ==
    /\ At(w, "run287")
    /\ last_exit_code' = Some(ErrorExitCode)
    /\ WGoto(w, "run288")
    /\ UNCHANGED <<is_running, current_thread, current_process, output_queue,
                   stop_requested, developer_mode, script_succeeded, is_paused,
                   pause_state, paused_script_path, paused_script_args,
                   proc, fg, outcome, stopped>>

\* Line 288.
Run288(w) ==
    /\ At(w, "run288")
    /\ script_succeeded' = Some(FALSE)
    /\ WGoto(w, "run289")
    /\ UNCHANGED <<is_running, current_thread, current_process, output_queue,
                   stop_requested, developer_mode, last_exit_code, is_paused,
                   pause_state, paused_script_path, paused_script_args,
                   proc, fg, outcome, stopped>>

\* Line 289.
Run289(w) ==
    /\ At(w, "run289")
    /\ is_paused' = FALSE
    /\ WGoto(w, "run291")
    /\ UNCHANGED <<is_running, current_thread, current_process, output_queue,
                   stop_requested, developer_mode, last_exit_code,
                   script_succeeded, pause_state, paused_script_path,
                   paused_script_args, proc, fg, outcome, stopped>>

\* Line 291.
Run291(w) ==
    /\ At(w, "run291")
    /\ is_running' = FALSE
    /\ WGoto(w, "run292")
    /\ UNCHANGED <<current_thread, current_process, output_queue,
                   stop_requested, developer_mode, last_exit_code,
                   script_succeeded, is_paused, pause_state,
                   paused_script_path, paused_script_args,
                   proc, fg, outcome, stopped>>

\* Line 292; the thread ends.  The runner then refers to no process, and
\* the record of this worker's child is dropped.
Run292(w) ==
    /\ At(w, "run292")
    /\ current_process' = None
    /\ thread' = [thread EXCEPT ![w] = DeadThread]
    /\ proc' = [proc EXCEPT ![w] = NoProc]
    /\ UNCHANGED <<is_running, current_thread, output_queue,
                   stop_requested, developer_mode, last_exit_code,
                   script_succeeded, is_paused, pause_state,
                   paused_script_path, paused_script_args,
                   fg, outcome, stopped>>

\* The child process ends by itself.
ChildExit(p) ==
    /\ proc[p].state = "running"
    /\ \E code \in ChildExitCodes :
          proc' = [proc EXCEPT ![p].state = "exited", ![p].code = code]
    /\ UNCHANGED <<runner, thread, fg, outcome, stopped>>

----------------------------------------------------------------------------
\* A worker thread in _run_simulation, lines 293-400.

SimUnchanged == UNCHANGED <<status, proc, fg, outcome, stopped>>

\* Line 353: the next operation, or the end of the loop.
SimNext(w, i) ==
    thread' = [thread EXCEPT ![w].i = i, ![w].j = 0, ![w].k = 0,
                             ![w].pc = IF i < NumOperations THEN "sim354"
                                                            ELSE "sim385"]

\* Line 354.
Sim354(w) ==
    /\ At(w, "sim354")
    /\ WGoto(w, IF stop_requested THEN "sim355" ELSE "sim360")
    /\ UNCHANGED <<runner, proc, fg, outcome, stopped>>

\* Line 355.
Sim355(w) ==
    /\ At(w, "sim355")
    /\ _add_output(WARNING, "Script execution interrupted by user.")
    /\ WGoto(w, "sim356")
    /\ SimUnchanged

\* Line 356.
Sim356(w) ==
    /\ At(w, "sim356")
    /\ last_exit_code' = Some(-1)
    /\ WGoto(w, "sim357")
    /\ UNCHANGED <<is_running, current_thread, current_process, output_queue,
                   stop_requested, developer_mode, script_succeeded, is_paused,
                   pause_state, paused_script_path, paused_script_args,
                   proc, fg, outcome, stopped>>

\* Lines 357-358.
Sim357(w) ==
    /\ At(w, "sim357")
    /\ script_succeeded' = Some(FALSE)
    /\ WGoto(w, "sim385")
    /\ UNCHANGED <<is_running, current_thread, current_process, output_queue,
                   stop_requested, developer_mode, last_exit_code, is_paused,
                   pause_state, paused_script_path, paused_script_args,
                   proc, fg, outcome, stopped>>

\* Line 360.
Sim360(w) ==
    /\ At(w, "sim360")
    /\ _add_output(INFO, "operation")
    /\ WGoto(w, "sim363")
    /\ SimUnchanged

\* Lines 362-365: one debug detail.
Sim363(w) ==
    /\ At(w, "sim363")
    /\ thread[w].k < NumDebug
    /\ _add_output(DEBUG, "debug detail")
    /\ thread' = [thread EXCEPT ![w].k = @ + 1]
    /\ SimUnchanged

\* Lines 367-369: after the details, the batch loop for the operation at
\* BatchIndex, the next operation otherwise.
Sim369(w) ==
    /\ At(w, "sim363")
    /\ thread[w].k = NumDebug
    /\ IF thread[w].i = BatchIndex
       THEN thread' = [thread EXCEPT ![w].pc = "sim371", ![w].k = 0]
       ELSE SimNext(w, thread[w].i + 1)
    /\ UNCHANGED <<runner, proc, fg, outcome, stopped>>

\* Lines 370-372.
Sim371(w) ==
    /\ At(w, "sim371")
    /\ WGoto(w, IF thread[w].j < NumBatches /\ ~stop_requested
                THEN "sim374" ELSE "sim381")
    /\ UNCHANGED <<runner, proc, fg, outcome, stopped>>

\* Line 374.
Sim374(w) ==
    /\ At(w, "sim374")
    /\ _add_output(INFO, "Processing batch")
    /\ WGoto(w, "sim375")
    /\ SimUnchanged

\* Line 375.
Sim375(w) ==
    /\ At(w, "sim375")
    /\ _add_output(DEBUG, "Records validated")
    /\ WGoto(w, "sim376")
    /\ SimUnchanged

\* Line 376.
Sim376(w) ==
    /\ At(w, "sim376")
    /\ _add_output(DEBUG, "Memory usage")
    /\ WGoto(w, "sim377")
    /\ SimUnchanged

\* Lines 377-379.
Sim377(w) ==
    /\ At(w, "sim377")
    /\ _add_output(DEBUG, "Processing rate")
    /\ thread' = [thread EXCEPT ![w].pc = "sim371", ![w].j = @ + 1]
    /\ SimUnchanged

\* Line 381.
Sim381(w) ==
    /\ At(w, "sim381")
    /\ IF stop_requested
       THEN SimNext(w, thread[w].i + 1)
       ELSE WGoto(w, "sim382")
    /\ UNCHANGED <<runner, proc, fg, outcome, stopped>>

\* Line 382.
Sim382(w) ==
    /\ At(w, "sim382")
    /\ _add_output(WARNING, "records skipped")
    /\ WGoto(w, "sim383")
    /\ SimUnchanged

\* Line 383.
Sim383(w) ==
    /\ At(w, "sim383")
    /\ _add_output(DEBUG, "Missing values")
    /\ SimNext(w, thread[w].i + 1)
    /\ SimUnchanged

\* Line 385.
Sim385(w) ==
    /\ At(w, "sim385")
    /\ WGoto(w, IF stop_requested THEN "sim400" ELSE "sim386")
    /\ UNCHANGED <<runner, proc, fg, outcome, stopped>>

\* Line 386.
Sim386(w) ==
    /\ At(w, "sim386")
    /\ _add_output(SUCCESS, "Script completed successfully!")
    /\ WGoto(w, "sim387")
    /\ SimUnchanged

\* Line 387.
Sim387(w) ==
    /\ At(w, "sim387")
    /\ _add_output(INFO, "Output saved")
    /\ WGoto(w, "sim388")
    /\ SimUnchanged

\* Line 388.
Sim388(w) ==
    /\ At(w, "sim388")
    /\ _add_output(DEBUG, "Total memory peak")
    /\ WGoto(w, "sim389")
    /\ SimUnchanged

\* Line 389.
Sim389(w) ==
    /\ At(w, "sim389")
    /\ _add_output(DEBUG, "CPU usage average")
    /\ WGoto(w, "sim392")
    /\ SimUnchanged

\* Line 392.
Sim392(w) ==
    /\ At(w, "sim392")
    /\ last_exit_code' = Some(0)
    /\ WGoto(w, "sim393")
    /\ UNCHANGED <<is_running, current_thread, current_process, output_queue,
                   stop_requested, developer_mode, script_succeeded, is_paused,
                   pause_state, paused_script_path, paused_script_args,
                   proc, fg, outcome, stopped>>

\* Line 393.
Sim393(w) ==
    /\ At(w, "sim393")
    /\ script_succeeded' = Some(TRUE)
    /\ WGoto(w, "sim400")
    /\ UNCHANGED <<is_running, current_thread, current_process, output_queue,
                   stop_requested, developer_mode, last_exit_code, is_paused,
                   pause_state, paused_script_path, paused_script_args,
                   proc, fg, outcome, stopped>>

\* Lines 399-400; the thread ends.
Sim400(w) ==
    /\ At(w, "sim400")
    /\ is_running' = FALSE
    /\ thread' = [thread EXCEPT ![w] = DeadThread]
    /\ UNCHANGED <<current_thread, current_process, output_queue,
                   stop_requested, developer_mode, last_exit_code,
                   script_succeeded, is_paused, pause_state,
                   paused_script_path, paused_script_args,
                   proc, fg, outcome, stopped>>

----------------------------------------------------------------------------
Foreground ==
    \/ \E c \in StartCalls : CallStart(c[1], c[2], c[3])
    \/ Start50 \/ Start54 \/ Start56 \/ Start60 \/ Start61 \/ Start62
    \/ Start65
    \/ CallResume \/ Resume112
    \/ CallStop \/ Stop86 \/ Stop87 \/ Stop90 \/ Stop90Poll \/ Stop92 \/ Stop96
    \/ Stop97 \/ Stop99 \/ Stop102 \/ Stop103 \/ Stop104 \/ Stop107
    \/ GetOutput \/ ClearOutputQueue

RunScript(w) ==
    \/ Run208(w) \/ Run221(w) \/ Run232(w) \/ Run236(w) \/ Run240(w)
    \/ Run248(w) \/ Run251(w) \/ Run258(w) \/ Run264(w) \/ Run267(w)
    \/ Run268(w) \/ Run269(w) \/ Run270(w) \/ Run273(w) \/ Run277(w)
    \/ Run278(w) \/ Run280(w) \/ Run286(w) \/ Run287(w) \/ Run288(w)
    \/ Run289(w) \/ Run291(w) \/ Run292(w)

RunSimulation(w) ==
    \/ Sim354(w) \/ Sim355(w) \/ Sim356(w) \/ Sim357(w) \/ Sim360(w)
    \/ Sim363(w) \/ Sim369(w) \/ Sim371(w) \/ Sim374(w) \/ Sim375(w)
    \/ Sim376(w) \/ Sim377(w) \/ Sim381(w) \/ Sim382(w) \/ Sim383(w)
    \/ Sim385(w) \/ Sim386(w) \/ Sim387(w) \/ Sim388(w) \/ Sim389(w)
    \/ Sim392(w) \/ Sim393(w) \/ Sim400(w)

Next ==
    \/ Foreground /\ UNCHANGED <<pagevars, statevars>>
    \/ \E w \in Workers : (RunScript(w) \/ RunSimulation(w))
                              /\ UNCHANGED <<pagevars, statevars>>
    \/ \E p \in Workers : ChildExit(p) /\ UNCHANGED <<pagevars, statevars>>

Spec == Init /\ [][Next]_vars

----------------------------------------------------------------------------
\* ProcessPage (src/pages/process_page.py) and OutputManager
\* (src/services/output_manager.py).  Their handlers run on the UI thread,
\* one at a time; the UI thread is the foreground thread of the runner, so a
\* handler that calls start(), stop() or resume() waits for the call to end.
\* A step of a handler ends at an access to the runner that a worker can
\* race with; what a handler does to the page alone is part of the step.

\* Pending after() callbacks of each kind, and messages enqueued, at most.
MaxPolls == 2
MaxChecks == 2
MaxSent == 3

\* The script the page runs (scripts_config, lines 312-313).
PageScript == Some("a.py")

PageGoto(pc) == page' = [page EXCEPT !.pc = pc]

\* ControlPanel.set_running_state, lines 115-126.
set_running_state(panel, running) ==
    IF running THEN [run |-> FALSE, continue |-> FALSE, stop |-> TRUE]
               ELSE [run |-> TRUE, continue |-> FALSE, stop |-> FALSE]

\* Lines 130-135 when the paused buttons are those of the idle panel.
set_paused_state_Idle(panel, paused) ==
    [panel EXCEPT !.continue = FALSE, !.run = TRUE]

\* ControlPanel.set_paused_state, lines 128-139.
set_paused_state(panel, paused) ==
    IF paused THEN [run |-> FALSE, continue |-> TRUE, stop |-> FALSE]
              ELSE [panel EXCEPT !.continue = FALSE, !.run = TRUE]

\* ProcessPage.on_script_running_changed, lines 470-488, on the page pg:
\* the observer of 'script_running'.
on_script_running_changed(pg, running) ==
    LET shown == [pg EXCEPT !.panel = set_running_state(pg.panel, running)]
    IN  IF ~running /\ is_script_paused
        THEN [shown EXCEPT !.panel = set_paused_state(shown.panel, TRUE)]
        ELSE [shown EXCEPT !.check_scheduled = IF running THEN @ ELSE FALSE]

\* set_state('script_running', value): StateManager.set notifies the observer
\* only when the value changes.  start_monitoring() of the observer is left
\* to the caller, which goes on to drain the queue.
SetScriptRunning(pg, value) ==
    IF pg.script_running = value
    THEN pg
    ELSE on_script_running_changed([pg EXCEPT !.script_running = value], value)

\* OutputManager.stop_monitoring, lines 36-38.
stop_monitoring(pg) == [pg EXCEPT !.check_scheduled = FALSE]

\* set_state('status', value)
SetStatus(pg, value) == [pg EXCEPT !.status = value]

\* publish_event(name, data) of the page, by the kind of event:
\* Events.SCRIPT_STARTED / SCRIPT_COMPLETED / SCRIPT_STOPPED / SCRIPT_ERROR,
\* 'script.paused', 'script.resumed'.
publish_event(pg, name) == [pg EXCEPT !.ev[name] = @ + 1]

\* HistoryManager.end_script_run, script_history.py lines 147-180: a record
\* is written when a run of the script is open, and closes it.
end_script_run(pg, run_status) ==
    IF pg.run_open THEN [pg EXCEPT !.run_open = FALSE, !.record = run_status]
    ELSE pg

\* The serial numbers follow the messages: a message a worker enqueues takes
\* the next number, one the UI thread enqueues (stop(), line 99) takes 0, and
\* an emptied queue has none.
Enqueued(tag) ==
    out' = IF Len(output_queue') > Len(output_queue)
           THEN [out EXCEPT !.sent = IF tag = 0 THEN @ ELSE @ + 1,
                            !.qid = Append(@, tag)]
           ELSE out

\* script_info.get("path") of line 314: the path scripts_config gives the
\* selected script, or None.
ConfiguredPaths == {None, PageScript}

\* ProcessPage.run_script, lines 294-337: up to the test of line 317 for a
\* script without a path, up to the call of start() for the others.
PageRun294 ==
    /\ page.pc = "idle" /\ fg.pc = "idle"
    /\ page.panel.run
    /\ ~page.script_running
    /\ output_queue' = <<>>
    /\ out' = [out EXCEPT !.qid = <<>>]
    /\ \E script_path \in ConfiguredPaths :
          IF ~Truthy(script_path)
          THEN /\ PageGoto("run317")
               /\ UNCHANGED <<developer_mode, fg>>
          ELSE /\ developer_mode' = FALSE
               /\ fg' = [pc |-> "start50", script_path |-> script_path,
                         args |-> None, developer_mode |-> FALSE,
                         resume |-> FALSE]
               /\ page' = [page EXCEPT !.pc = "run337", !.ev = NoEvents,
                                       !.run_open = TRUE, !.record = ""]
    /\ UNCHANGED <<is_running, current_thread, current_process,
                   stop_requested, last_exit_code, script_succeeded,
                   is_paused, pause_state, paused_script_path,
                   paused_script_args, thread, proc, outcome, stopped>>

\* run_script, lines 317-319: no path is configured; an error line goes
\* to the console and the handler returns.
PageRun317 ==
    /\ page.pc = "run317"
    /\ PageGoto("idle")
    /\ UNCHANGED <<runnervars, out>>

\* Lines 32-34 without the test of line 32: every call drains and schedules.
StartMonitoring_Always(pg, next) ==
    page' = [pg EXCEPT !.check_scheduled = TRUE, !.pc = "drain",
                       !.ret = next]

\* OutputManager.start_monitoring, lines 30-34, after the page pg has been
\* updated: on to _check_output, or on to what follows when monitoring is on.
StartMonitoring(pg, next) ==
    IF pg.check_scheduled
    THEN page' = [pg EXCEPT !.pc = next]
    ELSE page' = [pg EXCEPT !.check_scheduled = TRUE, !.pc = "drain",
                            !.ret = next]

\* ProcessPage.run_script, lines 339-342 and 360-364: start() has returned
\* and 'script_running' is set, whose observer starts the monitoring (line
\* 484); or start() has raised.
PageRun337 ==
    /\ page.pc = "run337" /\ fg.pc = "idle"
    /\ IF outcome = "none"
       THEN StartMonitoring(SetScriptRunning(page, TRUE), "run343")
       ELSE page' = [publish_event(SetStatus(SetScriptRunning(page, FALSE),
                                            "error"), "error")
                       EXCEPT !.pc = "idle"]
    /\ UNCHANGED <<runnervars, out>>

\* run_script, lines 343-358: the status, start_monitoring() once more,
\* SCRIPT_STARTED, and on to check_script_completion().
PageRun343 ==
    /\ page.pc = "run343"
    /\ StartMonitoring(publish_event(SetStatus(page, "running"), "started"),
                       "check398")
    /\ UNCHANGED <<runnervars, out>>

\* Line 145 the wrong way round: the message goes to the front of the list.
Collect_InFront(messages, msg) == <<msg>> \o messages

\* messages.append(msg), line 145.
Collect(messages, msg) == Append(messages, msg)

\* ScriptRunner.get_all_output, lines 140-145, one turn of its loop with a
\* message in the queue.
PageDrainGet ==
    /\ page.pc = "drain"
    /\ output_queue # <<>>
    /\ output_queue' = Tail(output_queue)
    /\ page' = [page EXCEPT !.messages = Collect(@, Head(output_queue))]
    /\ out' = [out EXCEPT !.qid = Tail(@), !.bid = Collect(@, Head(out.qid))]
    /\ UNCHANGED <<status, thread, proc, fg, outcome, stopped>>

\* ScriptRunner.get_all_output finds the queue empty and returns;
\* OutputManager._check_output, lines 47-52, hands each message to the
\* output callback and schedules the next check while monitoring is on.
PageDrainEnd ==
    /\ page.pc = "drain"
    /\ output_queue = <<>>
    /\ page.check_scheduled => page.polls < MaxPolls
    /\ page' = [page EXCEPT !.messages = <<>>,
                            !.polls = IF page.check_scheduled THEN @ + 1 ELSE @,
                            !.pc = page.ret, !.ret = "idle"]
    /\ out' = [out EXCEPT !.bid = <<>>, !.shown = @ \o out.bid]
    /\ UNCHANGED runnervars

\* A pending after(OUTPUT_CHECK_INTERVAL, self._check_output) fires
\* (output_manager.py, line 52).
PagePoll ==
    /\ page.pc = "idle" /\ fg.pc = "idle"
    /\ page.polls > 0
    /\ page' = [page EXCEPT !.polls = @ - 1, !.pc = "drain", !.ret = "idle"]
    /\ UNCHANGED <<runnervars, out>>

\* A pending after(100, self.check_script_completion) fires (line 468).
PageCheck ==
    /\ page.pc = "idle" /\ fg.pc = "idle"
    /\ page.checks > 0
    /\ page' = [page EXCEPT !.checks = @ - 1, !.pc = "check398"]
    /\ UNCHANGED <<runnervars, out>>

\* Line 468.
CheckAgain ==
    /\ page.checks < MaxChecks
    /\ page' = [page EXCEPT !.checks = @ + 1, !.pc = "idle"]

\* check_script_completion, line 399, left operand: is_running.
PageCheck398 ==
    /\ page.pc = "check398"
    /\ IF is_running THEN CheckAgain ELSE PageGoto("check399")
    /\ UNCHANGED <<runnervars, out>>

\* Lines 403-421 as if the pause were a completion: the completed branch
\* for a run of unknown outcome.
CheckPaused_AsCompleted(pg) ==
    LET a == stop_monitoring(SetScriptRunning(pg, FALSE))
        b == [a EXCEPT !.panel = set_paused_state(a.panel, FALSE)]
    IN  end_script_run(publish_event(SetStatus(b, "idle"), "completed"),
                       "unknown")

\* check_script_completion, lines 403-421: the paused branch.
CheckPaused(pg) ==
    LET a == stop_monitoring(SetStatus(SetScriptRunning(pg, FALSE), "paused"))
        b == [a EXCEPT !.panel = set_paused_state(
                                    set_running_state(a.panel, FALSE), TRUE)]
    IN  publish_event(b, "paused")

\* check_script_completion, lines 423-465: the completed branch.
CheckCompleted(pg) ==
    LET a == stop_monitoring(SetScriptRunning(pg, FALSE))
        b == [a EXCEPT !.panel = set_paused_state(a.panel, FALSE)]
    IN  IF did_script_succeed = Some(TRUE)
        THEN end_script_run(publish_event(SetStatus(b, "success"),
                                          "completed"), "success")
        ELSE IF did_script_succeed = Some(FALSE)
        THEN IF get_last_exit_code = Some(StopExitCode)
             THEN publish_event(SetStatus(b, "idle"), "stopped")
             ELSE end_script_run(publish_event(SetStatus(b, "error"),
                                               "error"), "error")
        ELSE end_script_run(publish_event(SetStatus(b, "idle"), "completed"),
                            "unknown")

\* Line 399, right operand: is_alive; and lines 400-465 once the run is over
\* (no worker is alive then, so nothing changes under the handler): the
\* paused branch of lines 401-421 or the completed branch of lines 423-465.
PageCheck399 ==
    /\ page.pc = "check399"
    /\ IF is_alive
       THEN CheckAgain
       ELSE page' = [(IF is_script_paused THEN CheckPaused(page)
                                          ELSE CheckCompleted(page))
                       EXCEPT !.pc = "idle"]
    /\ UNCHANGED <<runnervars, out>>

\* ProcessPage.stop_script, lines 367-370: up to the call of stop().
PageStop367 ==
    /\ page.pc = "idle"
    /\ page.panel.stop
    /\ page.script_running
    /\ CallStop
    /\ PageGoto("stop370")
    /\ UNCHANGED out

\* stop_script, lines 370-389: stop() has returned; when it raised (line 90)
\* the handler ends there.
PageStop370 ==
    /\ page.pc = "stop370" /\ fg.pc = "idle"
    /\ IF outcome \in {"none", "stop: not running"}
       THEN page' = [publish_event(
                        SetStatus(
                          SetScriptRunning(
                            end_script_run(stop_monitoring(page), "stopped"),
                            FALSE),
                          "idle"),
                        "stopped")
                       EXCEPT !.pc = "idle"]
       ELSE PageGoto("idle")
    /\ UNCHANGED <<runnervars, out>>

\* ProcessPage.continue_script, lines 133-144: up to the call of resume().
PageContinue133 ==
    /\ page.pc = "idle"
    /\ page.panel.continue
    /\ is_script_paused
    /\ CallResume
    /\ PageGoto("continue144")
    /\ UNCHANGED out

\* continue_script, lines 144-147 and 163-167: resume() has returned and
\* 'script_running' is set, whose observer starts the monitoring; or
\* resume() has raised.
PageContinue144 ==
    /\ page.pc = "continue144" /\ fg.pc = "idle"
    /\ IF outcome = "none"
       THEN StartMonitoring(SetScriptRunning(page, TRUE), "continue148")
       ELSE page' = [SetStatus(SetScriptRunning(page, FALSE), "error")
                       EXCEPT !.pc = "idle"]
    /\ UNCHANGED <<runnervars, out>>

\* continue_script, lines 148-161: the status, the buttons,
\* start_monitoring() once more, 'script.resumed', and on to
\* check_script_completion().
PageContinue148 ==
    /\ page.pc = "continue148"
    /\ LET pg == SetStatus(page, "running")
       IN  StartMonitoring(
             publish_event(
               [pg EXCEPT !.panel = set_paused_state(
                                       set_running_state(pg.panel, TRUE),
                                       FALSE)],
               "resumed"),
             "check398")
    /\ UNCHANGED <<runnervars, out>>

\* The runner's methods under the page's calls, and the workers.
PageCall ==
    /\ \/ Start50 \/ Start54 \/ Start56 \/ Start60 \/ Start61 \/ Start62
       \/ Start65 \/ Resume112
       \/ Stop86 \/ Stop87 \/ Stop90 \/ Stop90Poll \/ Stop92 \/ Stop96
       \/ Stop97 \/ Stop99 \/ Stop102 \/ Stop103 \/ Stop104 \/ Stop107
    /\ Enqueued(0)
    /\ UNCHANGED page

PageWorker(w) ==
    /\ RunScript(w)
    /\ Len(output_queue') > Len(output_queue) => out.sent < MaxSent
    /\ Enqueued(out.sent + 1)
    /\ UNCHANGED page

PageHandlers ==
    \/ PageRun294 \/ PageRun317 \/ PageRun337 \/ PageRun343
    \/ PageStop367 \/ PageStop370
    \/ PageContinue133 \/ PageContinue144 \/ PageContinue148
    \/ PagePoll \/ PageDrainGet \/ PageDrainEnd
    \/ PageCheck \/ PageCheck398 \/ PageCheck399

NextPage ==
    \/ PageHandlers /\ UNCHANGED statevars
    \/ PageCall /\ UNCHANGED statevars
    \/ \E w \in Workers : PageWorker(w) /\ UNCHANGED statevars
    \/ \E p \in Workers : ChildExit(p) /\ UNCHANGED <<pagevars, statevars>>

SpecPage == Init /\ [][NextPage]_vars

\* The pause scenario: one run from the fresh page, which the user never
\* stops and continues at most MaxResumes times.
MaxResumes == 1

\* The user invokes Run on the fresh page, or Continue.
PauseUser ==
    \/ /\ ~page.run_open /\ page.record = ""
       /\ PageRun294
    \/ /\ page.ev.resumed < MaxResumes
       /\ PageContinue133

\* The UI thread goes on with the handler it is in.
PauseHandler ==
    \/ PageRun317 \/ PageRun337 \/ PageRun343
    \/ PageContinue144 \/ PageContinue148
    \/ PageDrainGet \/ PageDrainEnd
    \/ PageCheck398 \/ PageCheck399
    \/ PageCall

\* A worker of the scenario.  The lines of the child (lines 240-261) are
\* numbered, and there are MaxSent of them at most; the messages of the
\* runner itself carry no number.
PauseWorker(w) ==
    /\ RunScript(w)
    /\ IF thread[w].pc \in {"run240", "run251", "run258"}
       THEN /\ Len(output_queue') > Len(output_queue) => out.sent < MaxSent
            /\ Enqueued(out.sent + 1)
       ELSE Enqueued(0)
    /\ UNCHANGED page

NextPause ==
    \/ PauseUser /\ UNCHANGED statevars
    \/ PauseHandler /\ UNCHANGED statevars
    \/ PagePoll /\ UNCHANGED statevars
    \/ PageCheck /\ UNCHANGED statevars
    \/ \E w \in Workers : PauseWorker(w) /\ UNCHANGED statevars
    \/ \E p \in Workers : ChildExit(p) /\ UNCHANGED <<pagevars, statevars>>

\* The UI thread finishes the handler it is in and the worker, when it can
\* run, runs (weak fairness); each pending after() callback gets its turn
\* when the UI thread is idle, although another callback may take the turn
\* before it (strong fairness); a child process ends.
SpecPause ==
    /\ Init /\ [][NextPause]_vars
    /\ WF_vars(PauseHandler /\ UNCHANGED statevars)
    /\ SF_vars(PagePoll /\ UNCHANGED statevars)
    /\ SF_vars(PageCheck /\ UNCHANGED statevars)
    /\ WF_vars(\E w \in Workers : PauseWorker(w) /\ UNCHANGED statevars)
    /\ WF_vars(\E p \in Workers :
                  ChildExit(p) /\ UNCHANGED <<pagevars, statevars>>)

----------------------------------------------------------------------------
(***************************************************************************)
(* EventBus (src/utils/event_bus.py) and StateManager                      *)
(* (src/utils/state_manager.py).  Both are called on the UI thread only,   *)
(* so a call runs to its end, callbacks included, before the next one      *)
(* starts: one call is one step.  A callback is known by its name; what    *)
(* it does when it is invoked is fixed by that name.                       *)
(***************************************************************************)

\* Bounds: the longest subscriber list, and the callbacks that exist.
MaxSubscribers == 2

\* "f" returns; "bad" raises an Exception; "adder" subscribes "f" to the
\* event it is invoked for; "remover" unsubscribes "f" and itself from the
\* event it is invoked for.
Callbacks == {"f", "bad", "adder", "remover"}
Raises(c) == c = "bad"

\* The events the model subscribes to and publishes.
BusEvents == {"navigation.changed", "state.changed"}

\* dict[k] = v, del dict[k], dict.get(k)
Put(d, k, v) == [x \in DOMAIN d \cup {k} |-> IF x = k THEN v ELSE d[x]]
Del(d, k) == [x \in DOMAIN d \ {k} |-> d[x]]
Get(d, k) == IF k \in DOMAIN d THEN d[k] ELSE PyNone

\* `x in list`, list.remove(x) (the first occurrence goes)
Contains(list, c) == \E i \in 1..Len(list) : list[i] = c
Remove(list, c) ==
    LET i == CHOOSE n \in 1..Len(list) :
                 list[n] = c /\ \A m \in 1..(n - 1) : list[m] # c
    IN  SubSeq(list, 1, i - 1) \o SubSeq(list, i + 1, Len(list))

\* The entries of `last.log`: a callback invoked with its argument, and a
\* publish() call with its payload.
Called(kind, name, c, data) ==
    [kind |-> kind, name |-> name, cb |-> c, data |-> data,
     raised |-> Raises(c)]
Published(event_name, data) ==
    [kind |-> "publish", name |-> event_name, cb |-> "", data |-> data,
     raised |-> FALSE]

\* A call and its result; `again` tells that the call before it was the
\* same call with the same arguments.
Call(op, args, ret, log) ==
    [op |-> op, args |-> args, ret |-> ret, log |-> log,
     again |-> (last.op = op /\ last.args = args)]

\* EventBus.subscribe, lines 22-26.
EventBus_subscribe(subs, event_name, callback) ==
    LET s1 == IF event_name \notin DOMAIN subs
              THEN Put(subs, event_name, <<>>) ELSE subs
    IN  IF ~Contains(s1[event_name], callback)
        THEN Put(s1, event_name, Append(s1[event_name], callback))
        ELSE s1

\* Lines 39-52 without the clean-up of lines 45-46: the emptied list stays.
EventBus_unsubscribe_KeepEmpty(subs, event_name, callback) ==
    IF event_name \in DOMAIN subs /\ Contains(subs[event_name], callback)
    THEN [table |-> Put(subs, event_name, Remove(subs[event_name], callback)),
          ret |-> "True"]
    ELSE [table |-> subs, ret |-> "False"]

\* EventBus.unsubscribe, lines 39-52: the table and the value returned.
EventBus_unsubscribe(subs, event_name, callback) ==
    IF event_name \in DOMAIN subs /\ Contains(subs[event_name], callback)
    THEN LET l == Remove(subs[event_name], callback)
         IN  [table |-> IF l = <<>> THEN Del(subs, event_name)
                                    ELSE Put(subs, event_name, l),
              ret |-> "True"]
    ELSE [table |-> subs, ret |-> "False"]

\* EventBus.clear_event_subscribers, lines 115-119.
EventBus_clear_event_subscribers(subs, event_name) ==
    IF event_name \in DOMAIN subs
    THEN [table |-> Del(subs, event_name), ret |-> "True"]
    ELSE [table |-> subs, ret |-> "False"]

\* EventBus.has_subscribers / get_all_events
has_subscribers(event_name) ==
    event_name \in DOMAIN _subscribers /\ Len(_subscribers[event_name]) > 0
get_all_events == DOMAIN _subscribers

\* What a subscriber does to the table when it is invoked for event_name.
SubscriberRuns(c, subs, event_name) ==
    CASE c = "adder" -> EventBus_subscribe(subs, event_name, "f")
      [] c = "remover" ->
           EventBus_unsubscribe(
               EventBus_unsubscribe(subs, event_name, "f").table,
               event_name, "remover").table
      [] OTHER -> subs

\* Lines 65-69 without the .copy(): the loop walks the list the table holds,
\* by position, while the callbacks change it.
RECURSIVE Dispatch_Live(_, _, _, _, _)
Dispatch_Live(i, subs, event_name, data, unused) ==
    IF event_name \notin DOMAIN subs \/ i > Len(subs[event_name])
    THEN [table |-> subs, log |-> <<>>, raised |-> FALSE]
    ELSE LET c == subs[event_name][i]
             r == Dispatch_Live(i + 1, SubscriberRuns(c, subs, event_name),
                                event_name, data, unused)
         IN  [table |-> r.table,
              log |-> <<Called("subscriber", event_name, c, data)>> \o r.log,
              raised |-> FALSE]

\* Lines 65-69: the loop over the copy of the list; an Exception a callback
\* raises is caught and logged, and the loop goes on.  i is the position in
\* the copy.
RECURSIVE Dispatch(_, _, _, _, _)
Dispatch(i, subs, event_name, data, snapshot) ==
    IF i > Len(snapshot)
    THEN [table |-> subs, log |-> <<>>, raised |-> FALSE]
    ELSE LET c == snapshot[i]
             r == Dispatch(i + 1, SubscriberRuns(c, subs, event_name),
                           event_name, data, snapshot)
         IN  [table |-> r.table,
              log |-> <<Called("subscriber", event_name, c, data)>> \o r.log,
              raised |-> r.raised]

\* EventBus.publish, lines 61-69: the table after the callbacks have run,
\* the calls made, and whether an exception leaves publish().
publish(subs, event_name, data) ==
    LET r == IF event_name \in DOMAIN subs
             THEN Dispatch(1, subs, event_name, data, subs[event_name])
             ELSE [table |-> subs, log |-> <<>>, raised |-> FALSE]
    IN  [table |-> r.table,
         log |-> <<Published(event_name, data)>> \o r.log,
         raised |-> r.raised]

\* No list grows beyond the bound.
WithinBound(table) ==
    \A n \in DOMAIN table : Len(table[n]) <= MaxSubscribers

\* The payload of app.py line 98.
NavigationData == [page |-> "'About'"]

Subscribe(event_name, callback) ==
    /\ _subscribers' = EventBus_subscribe(_subscribers, event_name, callback)
    /\ WithinBound(_subscribers')
    /\ last' = Call("subscribe", [name |-> event_name, cb |-> callback],
                    PyNone, <<>>)
    /\ UNCHANGED <<_state, _previous_state, _observers, disk>>

Unsubscribe(event_name, callback) ==
    LET r == EventBus_unsubscribe(_subscribers, event_name, callback)
    IN  /\ _subscribers' = r.table
        /\ last' = Call("unsubscribe", [name |-> event_name, cb |-> callback],
                        r.ret, <<>>)
        /\ UNCHANGED <<_state, _previous_state, _observers, disk>>

Publish(event_name) ==
    LET r == publish(_subscribers, event_name, NavigationData)
    IN  /\ _subscribers' = r.table
        /\ WithinBound(_subscribers')
        /\ last' = Call("publish", [name |-> event_name],
                        IF r.raised THEN "Exception" ELSE PyNone, r.log)
        /\ UNCHANGED <<_state, _previous_state, _observers, disk>>

\* EventBus.clear_all_subscribers, line 103.
ClearAllSubscribers ==
    /\ _subscribers' = EmptyDict
    /\ last' = Call("clear_all_subscribers", EmptyDict, PyNone, <<>>)
    /\ UNCHANGED <<_state, _previous_state, _observers, disk>>

ClearEventSubscribers(event_name) ==
    LET r == EventBus_clear_event_subscribers(_subscribers, event_name)
    IN  /\ _subscribers' = r.table
        /\ last' = Call("clear_event_subscribers", [name |-> event_name],
                        r.ret, <<>>)
        /\ UNCHANGED <<_state, _previous_state, _observers, disk>>

\* The state keys the model writes, in the order a dict that holds them all
\* lists them: the two default keys, then 'script_name', which
\* process_page.py line 345 adds.  The values written.
KeyOrder == DefaultKeys \o <<"script_name">>
StateKeys == {KeyOrder[i] : i \in 1..Len(KeyOrder)}
Values == {PyNone, "'light'"}

\* The observers the model registers.
Observers == {"f", "bad"}

\* StateManager.subscribe, lines 127-131.
StateManager_subscribe(obs, key, callback) ==
    LET o1 == IF key \notin DOMAIN obs THEN Put(obs, key, <<>>) ELSE obs
    IN  IF ~Contains(o1[key], callback)
        THEN Put(o1, key, Append(o1[key], callback))
        ELSE o1

\* StateManager.unsubscribe, lines 156-169.
StateManager_unsubscribe(obs, key, callback) ==
    IF key \in DOMAIN obs /\ Contains(obs[key], callback)
    THEN LET l == Remove(obs[key], callback)
         IN  [table |-> IF l = <<>> THEN Del(obs, key) ELSE Put(obs, key, l),
              ret |-> "True"]
    ELSE [table |-> obs, ret |-> "False"]

\* StateManager.clear_observers, lines 216-221; key is None or Some(key).
StateManager_clear_observers(obs, key) ==
    IF key = None THEN EmptyDict
    ELSE IF key[1] \in DOMAIN obs THEN Del(obs, key[1])
    ELSE obs

\* StateManager.has_observers
has_observers(key) == key \in DOMAIN _observers /\ Len(_observers[key]) > 0

\* What an observer does to the table when it is invoked for key.
ObserverRuns(c, obs, key) ==
    CASE c = "adder" -> StateManager_subscribe(obs, key, "f")
      [] c = "remover" ->
           StateManager_unsubscribe(
               StateManager_unsubscribe(obs, key, "f").table,
               key, "remover").table
      [] OTHER -> obs

\* Lines 182-186 when the except clause is missing: the first observer that
\* raises ends the loop and the exception leaves _notify_observers.
RECURSIVE Notify_NoCatch(_, _, _, _, _)
Notify_NoCatch(i, obs, key, value, snapshot) ==
    IF i > Len(snapshot)
    THEN [table |-> obs, log |-> <<>>, raised |-> FALSE]
    ELSE LET c == snapshot[i]
             r == Notify_NoCatch(i + 1, ObserverRuns(c, obs, key), key,
                                 value, snapshot)
             e == Called("observer", key, c, [value |-> value])
         IN  IF Raises(c)
             THEN [table |-> obs, log |-> <<e>>, raised |-> TRUE]
             ELSE [table |-> r.table, log |-> <<e>> \o r.log,
                   raised |-> r.raised]

\* Lines 182-186: the loop over the copy of the list; an Exception an
\* observer raises is caught and logged, and the loop goes on.
RECURSIVE Notify(_, _, _, _, _)
Notify(i, obs, key, value, snapshot) ==
    IF i > Len(snapshot)
    THEN [table |-> obs, log |-> <<>>, raised |-> FALSE]
    ELSE LET c == snapshot[i]
             r == Notify(i + 1, ObserverRuns(c, obs, key), key, value,
                         snapshot)
         IN  [table |-> r.table,
              log |-> <<Called("observer", key, c, [value |-> value])>>
                          \o r.log,
              raised |-> r.raised]

\* StateManager._notify_observers, lines 179-186.  Observers receive the
\* value only; old_value is not passed on.
_notify_observers(obs, key, value, old_value) ==
    IF key \in DOMAIN obs THEN Notify(1, obs, key, value, obs[key])
    ELSE [table |-> obs, log |-> <<>>, raised |-> FALSE]

\* Line 78 when the test is missing: every set() counts as a change.
Changed_Always(old_value, value) == TRUE

\* Line 78: `if old_value != value`
Changed(old_value, value) == old_value # value

\* StateManager.set, lines 75-93.
Set(key, value, notify) ==
    LET old_value == Get(_state, key)
        args == [key |-> key, value |-> value, notify |-> notify]
        n == _notify_observers(_observers, key, value, old_value)
        p == publish(_subscribers, "state.changed",
                     [key |-> key, value |-> value, old_value |-> old_value])
    IN  /\ IF Changed(old_value, value)
           THEN /\ _state' = Put(_state, key, value)
                /\ IF notify
                   THEN IF n.raised
                        THEN /\ _observers' = n.table
                             /\ UNCHANGED _subscribers
                             /\ last' = Call("set", args, "Exception", n.log)
                        ELSE /\ _observers' = n.table
                             /\ _subscribers' = p.table
                             /\ last' = Call("set", args,
                                             IF p.raised THEN "Exception"
                                             ELSE PyNone,
                                             n.log \o p.log)
                   ELSE /\ UNCHANGED <<_observers, _subscribers>>
                        /\ last' = Call("set", args, PyNone, <<>>)
           ELSE /\ UNCHANGED <<_state, _observers, _subscribers>>
                /\ last' = Call("set", args, PyNone, <<>>)
        /\ WithinBound(_observers') /\ WithinBound(_subscribers')
        /\ UNCHANGED <<_previous_state, disk>>

\* updates.items(): the keys of the mapping, in dict order.
Items(updates) == SelectSeq(KeyOrder, LAMBDA k : k \in DOMAIN updates)

\* Lines 102-107 when the test of line 105 is missing: every key of the
\* mapping is written and collected.
RECURSIVE UpdateLoop_All(_, _, _, _)
UpdateLoop_All(items, st, updates, changed_keys) ==
    IF items = <<>> THEN [state |-> st, changed_keys |-> changed_keys]
    ELSE UpdateLoop_All(Tail(items), Put(st, Head(items), updates[Head(items)]),
                        updates, Append(changed_keys, Head(items)))

\* Lines 102-107: the loop that writes the changed keys with
\* set(key, value, notify=False) and collects them.
RECURSIVE UpdateLoop(_, _, _, _)
UpdateLoop(items, st, updates, changed_keys) ==
    IF items = <<>> THEN [state |-> st, changed_keys |-> changed_keys]
    ELSE LET key == Head(items)
             value == updates[key]
         IN  IF Get(st, key) # value
             THEN UpdateLoop(Tail(items), Put(st, key, value), updates,
                             Append(changed_keys, key))
             ELSE UpdateLoop(Tail(items), st, updates, changed_keys)

\* Lines 111-112 and 253-255, 288-290: _notify_observers for each key of a
\* list in turn.
\* olds gives the old_value passed along.
RECURSIVE NotifyKeys(_, _, _, _)
NotifyKeys(keys, obs, st, olds) ==
    IF keys = <<>> THEN [table |-> obs, log |-> <<>>, raised |-> FALSE]
    ELSE LET n == _notify_observers(obs, Head(keys), st[Head(keys)],
                                    Get(olds, Head(keys)))
             r == NotifyKeys(Tail(keys), n.table, st, olds)
         IN  IF n.raised THEN n
             ELSE [table |-> r.table, log |-> n.log \o r.log,
                   raised |-> r.raised]

\* The events update() publishes once the observers have been notified,
\* lines 114-118: one 'state.batch_update' for the batch.
UpdatePublishes(subs, st, changed_keys) ==
    publish(subs, "state.batch_update",
            [keys |-> changed_keys,
             updates |-> [k \in {changed_keys[i] : i \in 1..Len(changed_keys)}
                             |-> st[k]]])

\* StateManager.update, lines 102-118.
Update(updates, notify) ==
    LET u == UpdateLoop(Items(updates), _state, updates, <<>>)
        args == [updates |-> updates, notify |-> notify]
        n == NotifyKeys(u.changed_keys, _observers, u.state, _previous_state)
        p == UpdatePublishes(_subscribers, u.state, u.changed_keys)
    IN  /\ _state' = u.state
        /\ IF notify /\ u.changed_keys # <<>>
           THEN IF n.raised
                THEN /\ _observers' = n.table
                     /\ UNCHANGED _subscribers
                     /\ last' = Call("update", args, "Exception", n.log)
                ELSE /\ _observers' = n.table
                     /\ _subscribers' = p.table
                     /\ last' = Call("update", args,
                                     IF p.raised THEN "Exception" ELSE PyNone,
                                     n.log \o p.log)
           ELSE /\ UNCHANGED <<_observers, _subscribers>>
                /\ last' = Call("update", args, PyNone, <<>>)
        /\ WithinBound(_observers') /\ WithinBound(_subscribers')
        /\ UNCHANGED <<_previous_state, disk>>

Observe(key, callback) ==
    /\ _observers' = StateManager_subscribe(_observers, key, callback)
    /\ WithinBound(_observers')
    /\ last' = Call("state.subscribe", [name |-> key, cb |-> callback],
                    PyNone, <<>>)
    /\ UNCHANGED <<_subscribers, _state, _previous_state, disk>>

Unobserve(key, callback) ==
    LET r == StateManager_unsubscribe(_observers, key, callback)
    IN  /\ _observers' = r.table
        /\ last' = Call("state.unsubscribe", [name |-> key, cb |-> callback],
                        r.ret, <<>>)
        /\ UNCHANGED <<_subscribers, _state, _previous_state, disk>>

ClearObservers(key) ==
    /\ _observers' = StateManager_clear_observers(_observers, key)
    /\ last' = Call("clear_observers", [key |-> key], PyNone, <<>>)
    /\ UNCHANGED <<_subscribers, _state, _previous_state, disk>>

\* StateManager.get_diff, lines 266-277: key -> (previous, current) for the
\* keys of either dict whose values differ.
get_diff ==
    LET all_keys == DOMAIN _state \cup DOMAIN _previous_state
    IN  [key \in {k \in all_keys : Get(_state, k) # Get(_previous_state, k)}
            |-> <<Get(_previous_state, key), Get(_state, key)>>]

\* StateManager.commit, line 281.
Commit ==
    /\ _previous_state' = _state
    /\ last' = Call("commit", EmptyDict, PyNone, <<>>)
    /\ UNCHANGED <<_subscribers, _state, _observers, disk>>

\* Line 285 when the snapshot is merged into the state instead of replacing
\* it: keys added since the commit stay.
Restored_Merged(st, previous) ==
    [k \in DOMAIN st \cup DOMAIN previous |->
        IF k \in DOMAIN previous THEN previous[k] ELSE st[k]]

\* Line 285: self._state = deepcopy(self._previous_state)
Restored(st, previous) == previous

\* `for key in self._state`: the keys of a dict, in dict order.
KeysOf(st) == SelectSeq(KeyOrder, LAMBDA k : k \in DOMAIN st)

\* StateManager.rollback, lines 285-292.  The call is recorded with
\* (history) the keys that differed from the snapshot when it was made.
Rollback ==
    LET st == Restored(_state, _previous_state)
        args == [undone |-> DOMAIN get_diff]
        n == NotifyKeys(KeysOf(st), _observers, st, EmptyDict)
        p == publish(_subscribers, "state.rollback", EmptyDict)
    IN  /\ _state' = st
        /\ IF n.raised
           THEN /\ _observers' = n.table
                /\ UNCHANGED _subscribers
                /\ last' = Call("rollback", args, "Exception", n.log)
           ELSE /\ _observers' = n.table
                /\ _subscribers' = p.table
                /\ last' = Call("rollback", args,
                                IF p.raised THEN "Exception" ELSE PyNone,
                                n.log \o p.log)
        /\ WithinBound(_observers') /\ WithinBound(_subscribers')
        /\ UNCHANGED <<_previous_state, disk>>

\* json.dump / json.load of one value: None is written as null, a str
\* between double quotes.
json_dumps(v) ==
    CASE v = PyNone -> "null"
      [] v = "'dark'" -> "\"dark\""
      [] v = "'light'" -> "\"light\""
json_loads(t) ==
    CASE t = "null" -> PyNone
      [] t = "\"dark\"" -> "'dark'"
      [] t = "\"light\"" -> "'light'"

\* The paths the model saves to and loads from, and os.path.dirname.
Paths == {"config/user_settings.json", "user_settings.json"}
dirname(filepath) ==
    IF filepath = "config/user_settings.json" THEN "config" ELSE ""

\* How the file system answers a save: it works, open() fails, or the
\* write fails after open() has truncated the file.
IOs == {"ok", "open fails", "write fails"}

\* A file json.dump has written in full, with (history) the state it was
\* written from, and a file cut short.
Written(st) ==
    [valid |-> TRUE, text |-> [k \in DOMAIN st |-> json_dumps(st[k])],
     saved |-> st]
Truncated == [valid |-> FALSE, text |-> EmptyDict, saved |-> EmptyDict]

\* StateManager.save_to_file, lines 304-319.  os.makedirs('') raises, so a
\* path without a directory part is never written.
Save(filepath, io) ==
    /\ disk' = IF dirname(filepath) = "" \/ io = "open fails" THEN disk
               ELSE IF io = "write fails" THEN Put(disk, filepath, Truncated)
               ELSE Put(disk, filepath, Written(_state))
    /\ last' = Call("save_to_file", [filepath |-> filepath],
                    IF dirname(filepath) # "" /\ io = "ok" THEN "True"
                    ELSE "False", <<>>)
    /\ UNCHANGED <<_subscribers, _state, _previous_state, _observers>>

\* Line 342 when the loaded keys only fill the gaps: self._state wins.
Merged_StateWins(st, loaded_state) ==
    [k \in DOMAIN st \cup DOMAIN loaded_state |->
        IF k \in DOMAIN st THEN st[k] ELSE loaded_state[k]]

\* Line 342: self._state.update(loaded_state)
Merged(st, loaded_state) ==
    [k \in DOMAIN st \cup DOMAIN loaded_state |->
        IF k \in DOMAIN loaded_state THEN loaded_state[k] ELSE st[k]]

\* StateManager.load_from_file, lines 330-348.  The call is recorded with
\* (history) whether the store had just been constructed.
Load(filepath) ==
    LET exists == filepath \in DOMAIN disk
        file == disk[filepath]
        loaded_state == [k \in DOMAIN file.text |-> json_loads(file.text[k])]
        args == [filepath |-> filepath, fresh |-> last.op = "StateManager"]
    IN  /\ IF exists /\ file.valid
           THEN /\ _state' = Merged(_state, loaded_state)
                /\ last' = Call("load_from_file", args, "True", <<>>)
           ELSE /\ UNCHANGED _state
                /\ last' = Call("load_from_file", args, "False", <<>>)
        /\ UNCHANGED <<_subscribers, _previous_state, _observers, disk>>

\* Lines 229-234: the values of the keys of preserve_keys that the store
\* holds.  preserve_keys is a list; None and [] both skip the loop.
Preserved_None(st, preserve_keys) == EmptyDict

Preserved(st, preserve_keys) ==
    [k \in {key \in {preserve_keys[i] : i \in 1..Len(preserve_keys)} :
               key \in DOMAIN st} |-> st[k]]

\* dict.update(other)
dict_update(st, other) ==
    [k \in DOMAIN st \cup DOMAIN other |->
        IF k \in DOMAIN other THEN other[k] ELSE st[k]]

\* StateManager.reset, lines 229-258.  The call is recorded with (history)
\* the store it found.
Reset(preserve_keys) ==
    LET preserved_values == Preserved(_state, preserve_keys)
        st == dict_update(DefaultState, preserved_values)
        args == [preserve_keys |-> preserve_keys, before |-> _state]
        n == NotifyKeys(KeysOf(st), _observers, st, _previous_state)
        p == publish(_subscribers, "state.reset",
                     [preserved_keys |-> preserve_keys])
    IN  /\ _state' = st
        /\ IF n.raised
           THEN /\ _observers' = n.table
                /\ UNCHANGED _subscribers
                /\ last' = Call("reset", args, "Exception", n.log)
           ELSE /\ _observers' = n.table
                /\ _subscribers' = p.table
                /\ last' = Call("reset", args,
                                IF p.raised THEN "Exception" ELSE PyNone,
                                n.log \o p.log)
        /\ WithinBound(_observers') /\ WithinBound(_subscribers')
        /\ UNCHANGED <<_previous_state, disk>>

\* reset_state_manager() and get_state_manager(), lines 355-370: a freshly
\* constructed StateManager takes the place of the store.
Construct ==
    /\ _state' = DefaultState
    /\ _previous_state' = DefaultState
    /\ _observers' = EmptyDict
    /\ last' = Call("StateManager", EmptyDict, PyNone, <<>>)
    /\ UNCHANGED <<_subscribers, disk>>

\* The mappings update() is called with: any values for any of two keys.
UpdateKeys == {"theme", "script_name"}
Mappings == UNION {[S -> Values] : S \in SUBSET UpdateKeys}

\* The keys the model puts observers on.
ObservedKeys == {"theme", "script_name"}

\* The EventBus under subscribe(), unsubscribe() and publish().
NextBus ==
    \/ \E e \in BusEvents, c \in Callbacks : Subscribe(e, c)
          /\ UNCHANGED <<runnervars, pagevars>>
    \/ \E e \in BusEvents, c \in Callbacks : Unsubscribe(e, c)
          /\ UNCHANGED <<runnervars, pagevars>>
    \/ \E e \in BusEvents : Publish(e)
          /\ UNCHANGED <<runnervars, pagevars>>

SpecBus == Init /\ [][NextBus]_vars

\* The subscriber table of the EventBus and the observer table of the
\* StateManager under every call that changes them.
NextTables ==
    \/ \E e \in BusEvents, c \in Observers : Subscribe(e, c)
          /\ UNCHANGED <<runnervars, pagevars>>
    \/ \E e \in BusEvents, c \in Observers : Unsubscribe(e, c)
          /\ UNCHANGED <<runnervars, pagevars>>
    \/ ClearAllSubscribers
          /\ UNCHANGED <<runnervars, pagevars>>
    \/ \E e \in BusEvents : ClearEventSubscribers(e)
          /\ UNCHANGED <<runnervars, pagevars>>
    \/ \E k \in ObservedKeys, c \in Observers : Observe(k, c)
          /\ UNCHANGED <<runnervars, pagevars>>
    \/ \E k \in ObservedKeys, c \in Observers : Unobserve(k, c)
          /\ UNCHANGED <<runnervars, pagevars>>
    \/ \E k \in {None} \cup {Some(x) : x \in ObservedKeys} : ClearObservers(k)
          /\ UNCHANGED <<runnervars, pagevars>>

SpecTables == Init /\ [][NextTables]_vars

\* The StateManager under set() and update(), with observers on its keys
\* and a subscriber to 'state.changed'.
StateEvents == {"state.changed"}

NextState ==
    \/ \E k \in StateKeys, v \in Values, n \in BOOLEAN : Set(k, v, n)
          /\ UNCHANGED <<runnervars, pagevars>>
    \/ \E m \in Mappings, n \in BOOLEAN : Update(m, n)
          /\ UNCHANGED <<runnervars, pagevars>>
    \/ \E k \in ObservedKeys, c \in Observers : Observe(k, c)
          /\ UNCHANGED <<runnervars, pagevars>>
    \/ \E k \in ObservedKeys, c \in Observers : Unobserve(k, c)
          /\ UNCHANGED <<runnervars, pagevars>>
    \/ \E e \in StateEvents : Subscribe(e, "f")
          /\ UNCHANGED <<runnervars, pagevars>>
    \/ \E e \in StateEvents : Unsubscribe(e, "f")
          /\ UNCHANGED <<runnervars, pagevars>>

SpecState == Init /\ [][NextState]_vars

\* set() and publish() with callbacks that raise: observers on one key and
\* subscribers to the events, each of them returning or raising.
NextIsolation ==
    \/ \E v \in Values : Set("theme", v, TRUE)
          /\ UNCHANGED <<runnervars, pagevars>>
    \/ \E e \in BusEvents : Publish(e)
          /\ UNCHANGED <<runnervars, pagevars>>
    \/ \E c \in Observers : Observe("theme", c)
          /\ UNCHANGED <<runnervars, pagevars>>
    \/ \E c \in Observers : Unobserve("theme", c)
          /\ UNCHANGED <<runnervars, pagevars>>
    \/ \E e \in BusEvents, c \in Observers : Subscribe(e, c)
          /\ UNCHANGED <<runnervars, pagevars>>

SpecIsolation == Init /\ [][NextIsolation]_vars

\* The StateManager under set(), update(), commit() and rollback().
NextSnap ==
    \/ \E k \in StateKeys, v \in Values : Set(k, v, TRUE)
          /\ UNCHANGED <<runnervars, pagevars>>
    \/ \E m \in Mappings : Update(m, TRUE)
          /\ UNCHANGED <<runnervars, pagevars>>
    \/ Commit
          /\ UNCHANGED <<runnervars, pagevars>>
    \/ Rollback
          /\ UNCHANGED <<runnervars, pagevars>>
    \/ \E k \in ObservedKeys : Observe(k, "f")
          /\ UNCHANGED <<runnervars, pagevars>>

SpecSnap == Init /\ [][NextSnap]_vars

\* The lists given to reset(): no key, one key, two keys.
PreserveLists == {<<>>, <<"theme">>, <<"script_name">>,
                  <<"script_path", "script_name">>}

\* The StateManager under set() and reset(), with observers and subscribers
\* of 'state.reset'.
NextReset ==
    \/ \E k \in StateKeys, v \in Values : Set(k, v, TRUE)
          /\ UNCHANGED <<runnervars, pagevars>>
    \/ \E k \in DOMAIN DefaultState : Observe(k, "f")
          /\ UNCHANGED <<runnervars, pagevars>>
    \/ Observe("theme", "bad")
          /\ UNCHANGED <<runnervars, pagevars>>
    \/ Subscribe("state.reset", "f")
          /\ UNCHANGED <<runnervars, pagevars>>
    \/ \E l \in PreserveLists : Reset(l)
          /\ UNCHANGED <<runnervars, pagevars>>

SpecReset == Init /\ [][NextReset]_vars

\* The StateManager under set(), save_to_file() and load_from_file(), and
\* its replacement by a fresh one.
NextFile ==
    \/ \E k \in StateKeys, v \in Values : Set(k, v, TRUE)
          /\ UNCHANGED <<runnervars, pagevars>>
    \/ \E p \in Paths, io \in IOs : Save(p, io)
          /\ UNCHANGED <<runnervars, pagevars>>
    \/ \E p \in Paths : Load(p)
          /\ UNCHANGED <<runnervars, pagevars>>
    \/ Construct
          /\ UNCHANGED <<runnervars, pagevars>>

SpecFile == Init /\ [][NextFile]_vars

----------------------------------------------------------------------------
\* Properties of ScriptRunner.

\* A foreground step (the worker threads and the children leave fg alone).
FgStep == fg' # fg

NoWorkerAlive == \A w \in Workers : ~Alive(w)

\* C1 (Stop finality): once a stop() that found a run in progress has
\* returned, and until the next start() is accepted, is_running is false,
\* last_exit_code is -1 and did_script_succeed() is False, whatever the worker
\* thread does in between.
C1_StopFinality ==
    stopped => /\ ~is_running
               /\ get_last_exit_code = Some(-1)
               /\ did_script_succeed = Some(FALSE)

\* C2: is_running and is_paused are never both true.
C2_NotRunningAndPaused == ~(is_running /\ is_paused)

\* C3 (Single active run): start() reaching line 50 while is_running is true
\* raises RuntimeError, creates no thread and leaves every field of the
\* runner, the threads and the processes as they were.
C3_StartWhileRunningRaises ==
    [][(fg.pc = "start50" /\ is_running /\ FgStep)
         => /\ outcome' = "RuntimeError: Script is already running"
            /\ fg'.pc = "idle"
            /\ UNCHANGED <<runner, thread, proc>>]_vars

\* C3's case: a start() has been refused while a worker was running.
C3_Witness ==
    /\ outcome = "RuntimeError: Script is already running"
    /\ is_running
    /\ ~NoWorkerAlive

\* C4: get_last_exit_code() and did_script_succeed() are both None whenever
\* the foreground reads them while a run is active or paused.
C4_NoneWhileActiveOrPaused ==
    (fg.pc = "idle" /\ (is_running \/ is_script_paused))
        => (get_last_exit_code = None /\ did_script_succeed = None)

\* The worker w ends its run: the step of line 291.
RunEnds(w) == At(w, "run291") /\ thread'[w].pc = "run292"

\* C5 (Pause detection): a run whose child ended with the pause code and on
\* which stop() was not called ends (line 291) with is_script_paused() true,
\* did_script_succeed() None, is_running false and paused_script_path /
\* paused_script_args those given to start(); and resume() relaunches that
\* path and those args with the resume flag, as a script and not as the
\* simulation.
C5_PauseDetection ==
    [][/\ \A w \in Workers :
            (RunEnds(w) /\ thread[w].branch = "pause" /\ ~thread[w].stop_called)
              => /\ is_script_paused'
                 /\ did_script_succeed' = None
                 /\ ~is_running'
                 /\ Truthy(paused_script_path')
                 /\ paused_script_path' = thread[w].script_path
                 /\ paused_script_args' = thread[w].args
       /\ (fg.pc = "resume112" /\ fg'.pc = "start50")
              => /\ fg'.script_path = paused_script_path
                 /\ fg'.args = paused_script_args
                 /\ fg'.resume
       /\ (fg.pc = "start65" /\ fg.resume /\ FgStep)
              => \E w \in Workers :
                    /\ ~Alive(w)
                    /\ thread'[w].pc = "run208"
                    /\ thread'[w].resume
                    /\ thread'[w].script_path = fg.script_path
                    /\ thread'[w].args = fg.args]_vars

\* C6 (Pause round-trip): a run relaunched by resume() from a paused runner,
\* not stopped, whose child ended by
\* itself with a code other than the pause code, ends (line 291) with
\* is_script_paused() false and with last_exit_code / did_script_succeed()
\* those of that child's exit code.
C6_PauseRoundTrip ==
    [][\A w \in Workers :
          (/\ RunEnds(w)
           /\ thread[w].resume
           /\ ~thread[w].stop_called
           /\ thread[w].branch = "done")
            => /\ ~is_script_paused'
               /\ proc[w].code # PauseCode
               /\ get_last_exit_code' = Some(proc[w].code)
               /\ did_script_succeed' = Some(proc[w].code = 0)]_vars

\* C7: resume() reaching line 112 while is_paused is false raises
\* RuntimeError, creates no thread and leaves every field as it was.
C7_ResumeWithoutPauseRaises ==
    [][(fg.pc = "resume112" /\ ~is_paused /\ FgStep)
         => /\ outcome' = "RuntimeError: No script is paused"
            /\ fg'.pc = "idle"
            /\ UNCHANGED <<runner, thread, proc>>]_vars

\* C7's case: a resume() has been refused on a runner that is not paused.
C7_Witness ==
    /\ outcome = "RuntimeError: No script is paused"
    /\ ~is_paused
    /\ fg.pc = "idle"

\* The foreground call was given a path that does not exist.
MissingPath == Truthy(fg.script_path) /\ ~PathExists(fg.script_path[1])

WStep(w) == thread'[w].pc # thread[w].pc

\* C10: an exception inside the worker's try is caught: the worker goes to
\* its handler, which enqueues an ERROR message, sets last_exit_code = 1 and
\* script_succeeded = False, and goes on to the finally.  Every worker ends
\* through its finally, normal, pause, error and stop-requested paths alike,
\* and the finally sets is_running false; so is_running is false whenever no
\* worker is alive and no call is in progress.
C10_WorkerErrorAndExit ==
    /\ [][\A w \in Workers :
            /\ (thread[w].branch # "error" /\ thread'[w].branch = "error")
                 => thread'[w].pc = "run286"
            /\ (At(w, "run286") /\ WStep(w))
                 => /\ output_queue' = Append(output_queue,
                                              <<ERROR, "Error running script">>)
                    /\ thread'[w].pc = "run287"
            /\ (At(w, "run287") /\ WStep(w))
                 => last_exit_code' = Some(1) /\ thread'[w].pc = "run288"
            /\ (At(w, "run288") /\ WStep(w))
                 => script_succeeded' = Some(FALSE) /\ thread'[w].pc = "run289"
            /\ (At(w, "run289") /\ WStep(w)) => thread'[w].pc = "run291"
            /\ (~At(w, "run292") /\ thread'[w].pc = "run292")
                 => At(w, "run291") /\ ~is_running'
            /\ (Alive(w) /\ ~Alive(w)')
                 => At(w, "run292") \/ (At(w, "sim400") /\ ~is_running')]_vars
    /\ []((fg.pc = "idle" /\ NoWorkerAlive) => ~is_running)

\* C10's case: a worker whose try raised is at the end of its finally, the
\* error status recorded.
C10_Witness ==
    \E w \in Workers :
        /\ At(w, "run292")
        /\ thread[w].branch = "error"
        /\ get_last_exit_code = Some(1)
        /\ did_script_succeed = Some(FALSE)
        /\ ~is_running
        /\ ~is_script_paused

----------------------------------------------------------------------------
\* Properties of the output path.

\* The serial numbers in out are those of the messages they stand for.
SerialsFollowMessages ==
    /\ Len(out.qid) = Len(output_queue)
    /\ Len(out.bid) = Len(page.messages)

Deliveries(n) == Cardinality({i \in 1..Len(out.shown) : out.shown[i] = n})

\* The runs are over and the UI thread has nothing left to do: no worker is
\* alive, no handler is running and no after() callback is pending.
PageQuiet ==
    /\ page.pc = "idle" /\ fg.pc = "idle"
    /\ NoWorkerAlive
    /\ page.polls = 0 /\ page.checks = 0

\* C12 (No output is lost): no message of a worker reaches the output
\* callback twice, and once the runs started through the page are over
\* (completed, paused or stopped) and every pending poll has run, each
\* message a worker enqueued has reached the callback exactly once.
C12_NoOutputLost ==
    /\ \A n \in 1..out.sent : Deliveries(n) <= 1
    /\ PageQuiet => \A n \in 1..out.sent : Deliveries(n) = 1

----------------------------------------------------------------------------
\* Properties of the StateManager and the EventBus.

\* The number of times a call invoked callback c for name, and the number
\* of times it published event_name.
Invocations(log, kind, name, c) ==
    Cardinality({i \in 1..Len(log) :
        log[i].kind = kind /\ log[i].name = name /\ log[i].cb = c})
Publications(log, event_name) ==
    Cardinality({i \in 1..Len(log) :
        log[i].kind = "publish" /\ log[i].name = event_name})

\* The callbacks registered under a name of a table.
Registered(table, name) ==
    IF name \in DOMAIN table
    THEN {table[name][i] : i \in 1..Len(table[name])} ELSE {}

\* A step that is a call of set() with notification enabled, and one that
\* is the second of two such calls in a row with the same key and value.
SetStep == last' # last /\ last'.op = "set" /\ last'.args.notify
SetAgain == SetStep /\ last'.again /\ ~last.again

\* C13 as stated: two calls set(k, v) in a row invoke, between them, each
\* observer of k exactly once and publish 'state.changed' exactly once.
C13_SetTwiceNotifiesOnce ==
    [][SetAgain =>
         LET k == last'.args.key
             both == last.log \o last'.log
         IN  /\ \A c \in Registered(_observers, k) :
                   Invocations(both, "observer", k, c) = 1
             /\ Publications(both, "state.changed") = 1]_vars

\* C13 (Change-only notification): a call set(k, v) whose value differs
\* from the stored one writes it, invokes each observer of k exactly once
\* and publishes 'state.changed' exactly once; a call whose value equals
\* the stored one changes nothing, invokes nobody and publishes nothing;
\* and the second of two calls set(k, v) in a row is always of the latter
\* kind, so that the two calls together notify once when v differed from
\* the value stored before them and never when it did not.
C13_ChangeOnlyNotification ==
    [][/\ SetStep =>
            LET k == last'.args.key
                v == last'.args.value
            IN  IF Get(_state, k) # v
                THEN /\ Get(_state', k) = v
                     /\ \A c \in Registered(_observers, k) :
                           Invocations(last'.log, "observer", k, c) = 1
                     /\ Publications(last'.log, "state.changed") = 1
                ELSE /\ last'.log = <<>>
                     /\ UNCHANGED <<_state, _observers, _subscribers>>
       /\ SetAgain =>
            /\ last'.log = <<>>
            /\ UNCHANGED <<_state, _observers, _subscribers>>
            /\ \A c \in Registered(_observers, last'.args.key) :
                  Invocations(last.log, "observer", last'.args.key, c) <= 1
            /\ Publications(last.log, "state.changed") <= 1]_vars

\* The second of two calls set(k, v) in a row has returned, for a key that
\* has observers, and the first had notified them.
C13_Witness ==
    /\ last.op = "set" /\ last.again /\ last.args.notify
    /\ has_observers(last.args.key)
    /\ last.log = <<>>
    /\ Get(_state, last.args.key) = last.args.value
    /\ last.args.value # PyNone

\* A step that is a call of update() with notification enabled, and the
\* keys of its mapping whose value differs from the stored one.
UpdateStep == last' # last /\ last'.op = "update" /\ last'.args.notify
ChangedKeys(st, updates) == {k \in DOMAIN updates : Get(st, k) # updates[k]}
Range(seq) == {seq[i] : i \in 1..Len(seq)}

\* C14 (Batch atomicity): update(mapping) with notification enabled writes
\* the mapping, invokes each observer of each changed key exactly once and
\* no observer of any other key, and, when some key changed, publishes
\* exactly one 'state.batch_update' whose key list holds each changed key
\* once and nothing else, with their new values; when no key changed it
\* invokes nobody and publishes nothing.
C14_BatchAtomicity ==
    [][UpdateStep =>
         LET m == last'.args.updates
             changed == ChangedKeys(_state, m)
             log == last'.log
         IN  /\ \A k \in DOMAIN m : Get(_state', k) = m[k]
             /\ \A k \in StateKeys, c \in Callbacks :
                   Invocations(log, "observer", k, c) =
                       IF k \in changed /\ c \in Registered(_observers, k)
                       THEN 1 ELSE 0
             /\ Publications(log, "state.batch_update") =
                   IF changed = {} THEN 0 ELSE 1
             /\ \A i \in 1..Len(log) :
                   log[i].kind = "publish" /\ log[i].name = "state.batch_update"
                   => /\ Range(log[i].data.keys) = changed
                      /\ Len(log[i].data.keys) = Cardinality(changed)
                      /\ log[i].data.updates = [k \in changed |-> m[k]]
             /\ changed = {} => log = <<>>]_vars

\* update() has been called with two keys of which one held its value
\* already: the observers of the other were invoked and the batch event
\* lists that key alone.
C14_Witness ==
    /\ last.op = "update" /\ last.args.notify
    /\ Cardinality(DOMAIN last.args.updates) = 2
    /\ \E i \in 1..Len(last.log) : last.log[i].kind = "observer"
    /\ \E i \in 1..Len(last.log) :
          /\ last.log[i].kind = "publish"
          /\ Len(last.log[i].data.keys) = 1

\* The call published 'state.changed' for key with its new and old value.
Republished(log, key, value, old_value) ==
    \E i \in 1..Len(log) :
        /\ log[i].kind = "publish" /\ log[i].name = "state.changed"
        /\ log[i].data.key = key
        /\ log[i].data.value = value
        /\ log[i].data.old_value = old_value

\* C15: every value change made by set() or by update() with notification
\* enabled publishes 'state.changed' for the changed key, with the key, its
\* new value and its old value.
C15_ChangeRepublished ==
    [][/\ SetStep =>
            LET k == last'.args.key
            IN  Get(_state', k) # Get(_state, k)
                => Republished(last'.log, k, Get(_state', k), Get(_state, k))
       /\ UpdateStep =>
            \A k \in ChangedKeys(_state, last'.args.updates) :
                Republished(last'.log, k, Get(_state', k), Get(_state, k))]_vars

\* A step that is a call of publish().
PublishStep == last' # last /\ last'.op = "publish"

\* The callbacks a call invoked for name, in order.
RECURSIVE Invoked(_, _, _)
Invoked(log, kind, name) ==
    IF log = <<>> THEN <<>>
    ELSE IF Head(log).kind = kind /\ Head(log).name = name
         THEN <<Head(log).cb>> \o Invoked(Tail(log), kind, name)
         ELSE Invoked(Tail(log), kind, name)

\* C16 (Subscriber isolation): publish(e) invokes every callback registered
\* for e, whether or not one of them raises, and returns normally; a set()
\* that changes the value of k writes it, invokes every observer of k,
\* whether or not one of them raises, then publishes 'state.changed' to
\* every subscriber, and returns normally.
C16_SubscriberIsolation ==
    [][/\ PublishStep =>
            LET e == last'.args.name
            IN  /\ last'.ret = PyNone
                /\ Invoked(last'.log, "subscriber", e) =
                      (IF e \in DOMAIN _subscribers THEN _subscribers[e]
                       ELSE <<>>)
       /\ SetStep =>
            LET k == last'.args.key
                v == last'.args.value
            IN  /\ last'.ret = PyNone
                /\ Get(_state', k) = v
                /\ Get(_state, k) # v =>
                      /\ Invoked(last'.log, "observer", k) =
                            (IF k \in DOMAIN _observers THEN _observers[k]
                             ELSE <<>>)
                      /\ Publications(last'.log, "state.changed") = 1
                      /\ Invoked(last'.log, "subscriber", "state.changed") =
                            (IF "state.changed" \in DOMAIN _subscribers
                             THEN _subscribers["state.changed"] ELSE <<>>)]_vars

\* set() has returned after an observer raised and the observer after it
\* was invoked, and after a subscriber to 'state.changed' raised and the
\* subscriber after it was invoked.
C16_Witness ==
    /\ last.op = "set" /\ last.ret = PyNone
    /\ Invoked(last.log, "observer", "theme") = <<"bad", "f">>
    /\ Invoked(last.log, "subscriber", "state.changed") = <<"bad", "f">>
    /\ _state["theme"] = "'light'"

\* The list registered for a name of a table.
Listed(table, name) == IF name \in DOMAIN table THEN table[name] ELSE <<>>

\* C17 (publish works on a snapshot): subscribe() puts a new callback at
\* the end of the list of its event, and publish(e) invokes the callbacks
\* that are in the list of e when it is called, each once and in the order
\* of the list, whatever the callbacks subscribe or unsubscribe while they
\* run; what they subscribe or unsubscribe shows in the table afterwards.
C17_PublishSnapshot ==
    [][/\ PublishStep =>
            Invoked(last'.log, "subscriber", last'.args.name)
                = Listed(_subscribers, last'.args.name)
       /\ (last' # last /\ last'.op = "subscribe") =>
            LET e == last'.args.name
                c == last'.args.cb
            IN  Listed(_subscribers', e) =
                    IF Contains(Listed(_subscribers, e), c)
                    THEN Listed(_subscribers, e)
                    ELSE Append(Listed(_subscribers, e), c)]_vars

\* publish() has invoked "remover" and then "f", which "remover" had
\* unsubscribed before its turn came; both are gone from the table.
C17_Witness ==
    /\ last.op = "publish"
    /\ Invoked(last.log, "subscriber", last.args.name) = <<"remover", "f">>
    /\ ~has_subscribers(last.args.name)

\* Every name of the table has a list that is not empty and holds no
\* callback twice.
WellFormed(table) ==
    \A n \in DOMAIN table :
        /\ table[n] # <<>>
        /\ \A i, j \in 1..Len(table[n]) : table[n][i] = table[n][j] => i = j

\* A step that is a call of op.
CallStep(op) == last' # last /\ last'.op = op

\* What subscribing c under name, and unsubscribing it, do to a table.
SubscribedTo(table, name, c) ==
    IF Contains(Listed(table, name), c) THEN UNCHANGED table
    ELSE /\ name \in DOMAIN table'
         /\ table'[name] = Append(Listed(table, name), c)
         /\ \A n \in DOMAIN table' \ {name} :
               n \in DOMAIN table /\ table'[n] = table[n]
UnsubscribedFrom(table, name, c) ==
    IF Contains(Listed(table, name), c)
    THEN /\ last'.ret = "True"
         /\ ~Contains(Listed(table', name), c)
         /\ Listed(table, name) = <<c>> => name \notin DOMAIN table'
    ELSE last'.ret = "False" /\ UNCHANGED table

\* The calls that subscribe and unsubscribe do so.
TableCalls ==
    /\ CallStep("subscribe") =>
          SubscribedTo(_subscribers, last'.args.name, last'.args.cb)
    /\ CallStep("unsubscribe") =>
          UnsubscribedFrom(_subscribers, last'.args.name, last'.args.cb)
    /\ CallStep("state.subscribe") =>
          SubscribedTo(_observers, last'.args.name, last'.args.cb)
    /\ CallStep("state.unsubscribe") =>
          UnsubscribedFrom(_observers, last'.args.name, last'.args.cb)

\* C18 (subscriber tables): in the subscriber table of the EventBus and in
\* the observer table of the StateManager every name has a non-empty list
\* without duplicates, so that get_all_events() is the set of events that
\* have subscribers and the keys of the observer table are the keys that
\* have observers; subscribing a callback that is registered changes
\* nothing, subscribing a new one appends it, unsubscribing removes the
\* callback and tells whether it was there, and removing the last one
\* drops the entry.
C18_SubscriberTables ==
    /\ [](/\ WellFormed(_subscribers)
          /\ WellFormed(_observers)
          /\ get_all_events = {e \in BusEvents : has_subscribers(e)}
          /\ DOMAIN _observers = {k \in StateKeys : has_observers(k)})
    /\ [][TableCalls]_vars

\* The last subscriber of an event has been unsubscribed and the event is
\* gone from get_all_events(), while another event keeps two subscribers
\* and a key keeps two observers.
C18_Witness ==
    /\ last.op = "unsubscribe" /\ last.ret = "True"
    /\ last.args.name \notin get_all_events
    /\ \E e \in get_all_events : Len(_subscribers[e]) = 2
    /\ \E k \in DOMAIN _observers : Len(_observers[k]) = 2

\* C19 (Persistence round-trip): load_from_file(p) on a path save_to_file
\* has written in full returns True and gives the store, for every key of
\* the state that was saved, the value that was saved, and leaves every
\* other key as it was: on a freshly constructed store the result is the
\* defaults overridden by the saved values.  On a path that holds no file,
\* or a file cut short, it returns False and leaves the store as it was.
C19_PersistenceRoundTrip ==
    [][CallStep("load_from_file") =>
         LET p == last'.args.filepath
         IN  IF p \in DOMAIN disk /\ disk[p].valid
             THEN LET saved == disk[p].saved
                  IN  /\ last'.ret = "True"
                      /\ DOMAIN _state' = DOMAIN _state \cup DOMAIN saved
                      /\ \A k \in DOMAIN saved : _state'[k] = saved[k]
                      /\ \A k \in DOMAIN _state \ DOMAIN saved :
                            _state'[k] = _state[k]
                      /\ last'.args.fresh =>
                            \A k \in DOMAIN DefaultState \ DOMAIN saved :
                                _state'[k] = DefaultState[k]
             ELSE last'.ret = "False" /\ UNCHANGED _state]_vars

\* A store whose values differ from the defaults, one key more included,
\* has been saved, and load_from_file has given a freshly constructed
\* store those values.
C19_Witness ==
    /\ last.op = "load_from_file" /\ last.ret = "True" /\ last.args.fresh
    /\ disk[last.args.filepath].saved =
          [k \in StateKeys |-> IF k = "script_path" THEN PyNone ELSE "'light'"]
    /\ _state = disk[last.args.filepath].saved
    /\ _previous_state = DefaultState

\* Key k is in one of the state and the snapshot only, or has different
\* values in them.
Differs(k) ==
    \/ (k \in DOMAIN _state) # (k \in DOMAIN _previous_state)
    \/ k \in DOMAIN _state /\ _state[k] # _previous_state[k]

\* What get_diff() is to return: the keys whose values differ, a key the
\* snapshot lacks counting as None there, each with the value of the
\* snapshot and the current value.  The one difference it does not report
\* is a key the snapshot lacks and the state holds with the value None.
DiffOK ==
    /\ DOMAIN _previous_state \subseteq DOMAIN _state
    /\ \A k \in DOMAIN get_diff :
          /\ Differs(k)
          /\ get_diff[k] = <<IF k \in DOMAIN _previous_state
                              THEN _previous_state[k] ELSE PyNone,
                             _state[k]>>
    /\ \A k \in StateKeys \ DOMAIN get_diff :
          Differs(k) => k \notin DOMAIN _previous_state /\ _state[k] = PyNone

\* commit(), set(), update() and rollback() and the snapshot.
SnapshotCalls ==
    /\ CallStep("commit") =>
          /\ _previous_state' = _state /\ _state' = _state
          /\ DOMAIN _previous_state' = DOMAIN _state'
          /\ get_diff' = EmptyDict
    /\ CallStep("set") \/ CallStep("update") =>
          _previous_state' = _previous_state
    /\ CallStep("rollback") =>
          /\ _state' = _previous_state
          /\ _previous_state' = _previous_state
          /\ get_diff' = EmptyDict
          /\ last'.ret = PyNone
          /\ \A k \in StateKeys :
                Invoked(last'.log, "observer", k) =
                    IF k \in DOMAIN _state' THEN Listed(_observers, k)
                    ELSE <<>>
          /\ \A i \in 1..Len(last'.log) :
                last'.log[i].kind = "observer"
                => last'.log[i].data.value = _state'[last'.log[i].name]

ResetStep == last' # last /\ last'.op = "reset"

\* C21 (Reset): reset(preserve_keys) leaves every default key with its
\* hard-coded default, except the listed keys the store held, which keep
\* their value; it invokes each observer of every default key exactly
\* once, whether or not the value changed; and it publishes 'state.reset'
\* exactly once, after every observer has been invoked.
C21_ResetToDefaults ==
    [][ResetStep =>
         LET pk == Range(last'.args.preserve_keys)
             log == last'.log
         IN  /\ \A k \in DOMAIN DefaultState :
                   _state'[k] = IF k \in pk /\ k \in DOMAIN _state
                                THEN _state[k] ELSE DefaultState[k]
             /\ \A k \in DOMAIN DefaultState :
                   \A c \in Registered(_observers, k) :
                       Invocations(log, "observer", k, c) = 1
             /\ Publications(log, "state.reset") = 1
             /\ \A i, j \in 1..Len(log) :
                   log[i].kind = "observer" /\ log[j].kind = "publish"
                   => i < j]_vars

\* reset(['theme']) has returned on a store whose theme was 'light' and
\* whose script_path was None already: theme kept 'light', and the observer
\* of script_path was invoked although the key did not change.
C21_Witness ==
    /\ last.op = "reset"
    /\ last.args.preserve_keys = <<"theme">>
    /\ last.args.before["theme"] = "'light'"
    /\ last.args.before["script_path"] = PyNone
    /\ "script_name" \in DOMAIN last.args.before
    /\ _state["theme"] = "'light'"
    /\ "script_name" \notin DOMAIN _state
    /\ Invocations(last.log, "observer", "script_path", "f") = 1
    /\ Publications(last.log, "state.reset") = 1

\* C30 (Pause sentinel): the exit code with which the shipped pausing
\* script leaves for review is the one _run_script tests for, so that a
\* worker never takes the not-paused branch (line 277) for a child that
\* left through the review pause.
C30_PauseSentinelAgrees ==
    \A w \in Workers :
        At(w, "run277") => proc[w].returncode # Some(ReviewExit)

\* C28 (Single worker): at most one worker thread is alive at any moment:
\* a start() that has been accepted (it is past the test of line 50 and on
\* its way to create and start the thread of lines 68-82) finds no worker
\* of an earlier run alive.
C28_SingleWorker ==
    fg.pc \in {"start54", "start56", "start60", "start61", "start62",
               "start65"}
    => \A w \in Workers : ~Alive(w)

----------------------------------------------------------------------------
\* Properties of the page's run lifecycle.

\* C29 (Single polling loop): at most one _check_output callback is pending
\* on the foreground scheduler at any moment, whatever the sequence of
\* start_monitoring() and stop_monitoring() calls and of ticks.
C29_SinglePollingLoop == page.polls <= 1

\* A step that is the call of start_monitoring() of run_script line 349 or
\* of continue_script line 152, made while the monitoring is on.
StartWhileMonitoring ==
    /\ page.pc \in {"run343", "continue148"}
    /\ page.check_scheduled
    /\ page'.pc # page.pc

\* C26 (Idempotent monitoring): start_monitoring() called while the
\* monitoring is on drains nothing and schedules no further poll: the queue,
\* the delivered messages and the number of pending polls stay as they are
\* and the caller goes on; stop_monitoring() called while the monitoring is
\* off changes nothing.
C26_MonitoringIdempotent ==
    /\ [](~page.check_scheduled => stop_monitoring(page) = page)
    /\ [][StartWhileMonitoring =>
            /\ page'.pc = "check398"
            /\ page'.check_scheduled
            /\ page'.polls = page.polls
            /\ page'.messages = page.messages
            /\ UNCHANGED <<output_queue, out>>]_vars

\* run_script has made its second start_monitoring() call of a run: one
\* poll is pending, from the first call, whose drain delivered a message.
C26_Witness ==
    /\ page.pc = "check398"
    /\ page.status = "running"
    /\ page.ev.started = 1 /\ page.ev.resumed = 0
    /\ page.check_scheduled
    /\ page.polls = 1 /\ page.checks = 0
    /\ out.shown # <<>>

\* The terminal lifecycle events (SCRIPT_COMPLETED, SCRIPT_STOPPED,
\* SCRIPT_ERROR) published since the run was started.
TerminalEvents == page.ev.completed + page.ev.stopped + page.ev.error

\* C27 (One terminal event): no run started through the page produces more
\* than one terminal lifecycle event, and a run the user stopped produces
\* SCRIPT_STOPPED alone.
C27_OneTerminalEvent ==
    /\ TerminalEvents <= 1
    /\ page.record = "stopped" =>
          page.ev.completed = 0 /\ page.ev.error = 0

\* C22 (Stop is final): once stop_script has stopped a running script, the
\* store holds script_running == False and status == 'idle' whenever the UI
\* thread is between two handlers, until the next Run.
C22_StopFinalState ==
    page.record = "stopped" /\ page.pc = "idle" /\ page.ev.resumed = 0
    => page.status = "idle" /\ ~page.script_running

\* A step in which check_script_completion finds the worker finished and
\* the runner paused.
PausedStep ==
    /\ page.pc = "check399" /\ page'.pc = "idle"
    /\ ~is_alive /\ is_script_paused

\* C23 (A pause is not a completion): the completion poll that finds the
\* worker finished and the runner paused sets script_running to False and
\* status to 'paused', stops the monitoring, publishes 'script.paused' once
\* and does not reschedule itself; it publishes none of SCRIPT_COMPLETED,
\* SCRIPT_STOPPED, SCRIPT_ERROR and writes no history record.
C23_PauseIsNotCompletion ==
    [][PausedStep =>
         /\ ~page'.script_running
         /\ page'.status = "paused"
         /\ ~page'.check_scheduled
         /\ page'.ev.paused = page.ev.paused + 1
         /\ page'.checks = page.checks
         /\ page'.ev.completed = page.ev.completed
         /\ page'.ev.stopped = page.ev.stopped
         /\ page'.ev.error = page.ev.error
         /\ page'.record = page.record
         /\ page'.run_open = page.run_open]_vars

\* The poll has found the first run of a script paused: the run is still
\* open in the history, no terminal event was published and no completion
\* check is pending.
C23_Witness ==
    /\ page.pc = "idle"
    /\ page.status = "paused"
    /\ page.ev.paused = 1 /\ page.ev.started = 1
    /\ TerminalEvents = 0
    /\ page.run_open /\ page.record = ""
    /\ page.checks = 0
    /\ ~page.script_running /\ ~page.check_scheduled
    /\ is_script_paused

\* C24 (Simulation run): run_script() for a script without a path
\* (script_path = None) starts the simulation: it hands start() the path
\* None, from where the status goes to 'running' and SCRIPT_STARTED is
\* published.
C24_SimulationRunStarts ==
    [][page.pc = "run317" /\ page'.pc # "run317" =>
          /\ page'.pc = "run337"
          /\ fg'.pc = "start50" /\ fg'.script_path = None]_vars

\* The child of a worker has exited with the pause code; the child of a
\* resumed worker has exited with code 0.
ExitedWith(code, resumed) ==
    \E w \in Workers :
        /\ Alive(w) /\ thread[w].resume = resumed
        /\ proc[w].state = "exited" /\ proc[w].code = code

\* A step in which continue_script, resume() having returned, reaches its
\* call of check_script_completion().
ContinueStep == page.pc = "continue148" /\ page'.pc # "continue148"

\* The worker has read the exit code of its child and taken the branch of
\* line 267 for it.
Detected(code, resumed) ==
    \E w \in Workers :
        /\ Alive(w) /\ thread[w].resume = resumed
        /\ thread[w].branch \in {"pause", "done"}
        /\ proc[w].returncode = Some(code)

\* While the status is 'paused' Continue is enabled and Stop (and Run)
\* disabled; Continue sets status 'running' and enters the completion poll
\* again.
PausedControls ==
    /\ [](page.status = "paused" /\ page.pc = "idle" =>
             page.panel.continue /\ ~page.panel.stop /\ ~page.panel.run)
    /\ [][ContinueStep =>
             /\ page'.status = "running" /\ page'.script_running
             /\ page'.pc = "check398"
             /\ page'.panel.stop /\ ~page'.panel.continue]_vars

====
